---------------------------- MODULE Spec2Model ----------------------------
(***************************************************************************)
(* A model of the subscription processing scripts of this repository:      *)
(*   src/process_subscriptions.py  (fetch, base64, parse_nodes, dedup)     *)
(*   src/script.py                 (is_valid_sub / get_nodes_from_sub)     *)
(*   src/update.py                 (node extraction with YAML detection)   *)
(*                                                                         *)
(* Text is modelled character by character: a Python str is a sequence of  *)
(* code points (integers), a Python bytes object a sequence of integers in *)
(* 0..255.  The library conversions the scripts call (base64, UTF-8,       *)
(* latin-1, the regular expressions, urlparse, json.loads) are computed on *)
(* these sequences the way the library computes them.                      *)
(***************************************************************************)
EXTENDS Integers, Sequences, FiniteSets, TLC

(***************************************************************************)
(* Characters.  Printable is the printable ASCII range 32..126; Ord gives  *)
(* the code point of a one-character string, Str the str of a tuple of     *)
(* one-character strings.  The backslash (92) and the backtick (96)   *)
(* have no string form here and are written as numbers.                    *)
(***************************************************************************)
Printable ==
  << " ", "!", "\"", "#", "$", "%", "&", "'", "(", ")", "*", "+", ",", "-", ".", "/",
     "0", "1", "2", "3", "4", "5", "6", "7", "8", "9", ":", ";", "<", "=", ">", "?",
     "@", "A", "B", "C", "D", "E", "F", "G", "H", "I", "J", "K", "L", "M", "N", "O",
     "P", "Q", "R", "S", "T", "U", "V", "W", "X", "Y", "Z", "[", "BACKSLASH", "]", "^", "_",
     "BACKTICK", "a", "b", "c", "d", "e", "f", "g", "h", "i", "j", "k", "l", "m", "n", "o",
     "p", "q", "r", "s", "t", "u", "v", "w", "x", "y", "z", "{", "|", "}", "~" >>

Ord(c) == 31 + (CHOOSE i \in 1..Len(Printable) : Printable[i] = c)

Str(t) == [i \in 1..Len(t) |-> Ord(t[i])]

\* The line feed, which separates the lines of a payload.
LF == 10

\* U+2192, the arrow that starts the advertisement lines the parser filters out.
ARROW == 8594

\* A local variable: the value v, computed once, under the name F gives it.
Bind(v, F(_)) == F(v)

(***************************************************************************)
(* Generic str operations: slicing, startswith, find, strip, splitlines,   *)
(* lower.                                                                  *)
(***************************************************************************)
\* s[a:b] with 0-based Python indices, 0 <= a; b is clipped to len(s).
Slice(s, a, b) ==
  LET e == IF b > Len(s) THEN Len(s) ELSE b
  IN  IF a >= e THEN << >> ELSE SubSeq(s, a + 1, e)

\* s[a:]
From(s, a) == Slice(s, a, Len(s))

startswith(s, p) == Len(s) >= Len(p) /\ SubSeq(s, 1, Len(p)) = p

\* p in s
Contains(s, p) ==
  \E i \in 1..(Len(s) - Len(p) + 1) : SubSeq(s, i, i + Len(p) - 1) = p

\* s.find(c, start): the 1-based position of the first c at or after the
\* 1-based position start, 0 when there is none.
FindChar(s, c, start) ==
  IF \E i \in start..Len(s) : s[i] = c
  THEN CHOOSE i \in start..Len(s) : s[i] = c /\ \A j \in start..(i - 1) : s[j] # c
  ELSE 0

\* The characters str.strip() removes (ASCII whitespace and NBSP-free subset
\* of Unicode whitespace below 256: \t \n \v \f \r FS GS RS US space NEL NBSP).
IsSpace(c) == c \in {9, 10, 11, 12, 13, 28, 29, 30, 31, 32, 133, 160}

strip(s) ==
  IF \A i \in 1..Len(s) : IsSpace(s[i]) THEN << >>
  ELSE LET a == CHOOSE i \in 1..Len(s) :
                  ~IsSpace(s[i]) /\ \A j \in 1..(i - 1) : IsSpace(s[j])
           b == CHOOSE i \in 1..Len(s) :
                  ~IsSpace(s[i]) /\ \A j \in (i + 1)..Len(s) : IsSpace(s[j])
       IN  SubSeq(s, a, b)

\* str.rstrip('=')
RECURSIVE rstripEq(_)
rstripEq(s) ==
  IF s # << >> /\ s[Len(s)] = 61 THEN rstripEq(SubSeq(s, 1, Len(s) - 1)) ELSE s

\* The line boundaries of str.splitlines() among the code points below 256.
IsLineBreak(c) == c \in {10, 11, 12, 13, 28, 29, 30, 133}

\* str.splitlines(): a trailing line break yields no empty last line; \r\n is
\* one boundary.
RECURSIVE splitlines(_)
splitlines(s) ==
  IF s = << >> THEN << >>
  ELSE IF \E i \in 1..Len(s) : IsLineBreak(s[i])
       THEN LET i == CHOOSE k \in 1..Len(s) :
                       IsLineBreak(s[k]) /\ \A j \in 1..(k - 1) : ~IsLineBreak(s[j])
                n == IF s[i] = 13 /\ i < Len(s) /\ s[i + 1] = 10 THEN i + 1 ELSE i
            IN  << SubSeq(s, 1, i - 1) >> \o splitlines(SubSeq(s, n + 1, Len(s)))
       ELSE << s >>

\* str.lower() on the ASCII letters (the filters only look for ASCII text).
lower(s) == [i \in 1..Len(s) |-> IF s[i] \in 65..90 THEN s[i] + 32 ELSE s[i]]

IsDigit(c) == c \in 48..57

IsAlpha(c) == c \in 65..90 \/ c \in 97..122

\* int(s) of a non-empty string of ASCII digits.
RECURSIVE StrToInt(_)
StrToInt(s) ==
  IF s = << >> THEN 0
  ELSE 10 * StrToInt(SubSeq(s, 1, Len(s) - 1)) + (s[Len(s)] - 48)

\* str(n) of a natural number.
RECURSIVE IntToStr(_)
IntToStr(n) ==
  IF n < 10 THEN << 48 + n >> ELSE IntToStr(n \div 10) \o << 48 + (n % 10) >>

\* The concatenation of a sequence of strings.
RECURSIVE Concat(_)
Concat(ss) ==
  IF ss = << >> THEN << >>
  ELSE IF Len(ss) = 1 THEN ss[1]
  ELSE LET h == Len(ss) \div 2
       IN  Concat(SubSeq(ss, 1, h)) \o Concat(SubSeq(ss, h + 1, Len(ss)))

(***************************************************************************)
(* base64 (binascii.a2b_base64 in its default, non-strict mode, and        *)
(* b2a_base64).  Characters outside the alphabet are discarded; a pad      *)
(* sequence that completes a quad ends the input; input that ends inside a *)
(* quad raises binascii.Error.                                             *)
(***************************************************************************)
B64Val(c) ==
  IF c \in 65..90 THEN c - 65
  ELSE IF c \in 97..122 THEN c - 71
  ELSE IF c \in 48..57 THEN c + 4
  ELSE IF c = 43 THEN 62
  ELSE IF c = 47 THEN 63
  ELSE -1

B64Char(v) ==
  IF v < 26 THEN v + 65
  ELSE IF v < 52 THEN v + 71
  ELSE IF v < 62 THEN v - 4
  ELSE IF v = 62 THEN 43 ELSE 47

IsData(c) == B64Val(c) # -1

\* The position in the quad (0..3) when the scan reaches position i: the number
\* of alphabet characters before it, modulo 4.
QuadPos(s, i) == Cardinality({k \in 1..(i - 1) : IsData(s[k])}) % 4

\* Whether the '=' at position i ends the input: with three characters of the
\* quad read it does; with two it does when another '=' precedes it with no
\* alphabet character in between (the pads are counted from the last alphabet
\* character on, and only from the middle of a quad).
PadEnds(s, i) ==
  /\ s[i] = 61
  /\ \/ QuadPos(s, i) = 3
     \/ /\ QuadPos(s, i) = 2
        /\ \E j \in 1..(i - 1) : s[j] = 61 /\ \A k \in j..i : ~IsData(s[k])

\* The scan of the input: the 6-bit values read up to the pad sequence that
\* ends it (or to the end), and whether it ended on a pad sequence or on a
\* quad boundary.
A2BScan(s) ==
  LET ended == \E i \in 1..Len(s) : PadEnds(s, i)
      stop  == IF ended
               THEN CHOOSE i \in 1..Len(s) :
                      PadEnds(s, i) /\ \A k \in 1..(i - 1) : ~PadEnds(s, k)
               ELSE Len(s) + 1
      data  == SelectSeq(SubSeq(s, 1, stop - 1), IsData)
  IN  [ok |-> ended \/ Len(data) % 4 = 0, vals |-> [k \in 1..Len(data) |-> B64Val(data[k])]]

\* The bytes of a sequence of 6-bit values (the bits of an incomplete last
\* byte are dropped).
SextetsToBytes(v) ==
  [j \in 1..((6 * Len(v)) \div 8) |->
     LET bit == 8 * (j - 1)
         a   == (bit \div 6) + 1
         o   == bit % 6
         two == v[a] * 64 + v[a + 1]
     IN  (two \div (IF o = 0 THEN 16 ELSE IF o = 2 THEN 4 ELSE 1)) % 256]

\* binascii.a2b_base64(s): [ok |-> FALSE] stands for binascii.Error.
a2b_base64(s) ==
  LET r == A2BScan(s)
  IN  IF r.ok THEN [ok |-> TRUE, bytes |-> SextetsToBytes(r.vals)]
      ELSE [ok |-> FALSE, bytes |-> << >>]

\* base64.b64decode(s) with validate=False.
b64decode(s) == a2b_base64(s)

\* base64.urlsafe_b64decode(s): '-' and '_' stand for '+' and '/'.
urlsafe_b64decode(s) ==
  b64decode([i \in 1..Len(s) |->
               IF s[i] = 45 THEN 43 ELSE IF s[i] = 95 THEN 47 ELSE s[i]])

\* base64.b64encode(b), with the '=' padding.
b64encode(b) ==
  LET n == (8 * Len(b) + 5) \div 6
      sext(k) ==
        LET bit == 6 * (k - 1)
            a   == (bit \div 8) + 1
            o   == bit % 8
            two == b[a] * 256 + (IF a + 1 <= Len(b) THEN b[a + 1] ELSE 0)
        IN  (two \div (IF o = 0 THEN 1024 ELSE IF o = 2 THEN 256
                        ELSE IF o = 4 THEN 64 ELSE 16)) % 64
  IN  [k \in 1..n |-> B64Char(sext(k))] \o [k \in 1..((4 - (n % 4)) % 4) |-> 61]

\* base64.urlsafe_b64encode(b)
urlsafe_b64encode(b) ==
  LET e == b64encode(b)
  IN  [i \in 1..Len(e) |->
         IF e[i] = 43 THEN 45 ELSE IF e[i] = 47 THEN 95 ELSE e[i]]

(***************************************************************************)
(* Text encodings.                                                         *)
(***************************************************************************)
IsAscii(s) == \A i \in 1..Len(s) : s[i] < 128

IsCont(b) == b \in 128..191

\* bytes.decode('utf-8'): [ok |-> FALSE] stands for UnicodeDecodeError.
RECURSIVE Utf8Scan(_, _, _)
Utf8Scan(b, i, acc) ==
  IF i > Len(b) THEN [ok |-> TRUE, text |-> acc]
  ELSE LET c == b[i]
           has(k) == i + k <= Len(b) /\ \A j \in 1..k : IsCont(b[i + j])
       IN  IF c < 128 THEN Utf8Scan(b, i + 1, Append(acc, c))
           ELSE IF c \in 194..223 /\ has(1)
                THEN Utf8Scan(b, i + 2,
                       Append(acc, (c - 192) * 64 + (b[i + 1] - 128)))
           ELSE IF c \in 224..239 /\ has(2)
                   /\ (c = 224 => b[i + 1] >= 160)
                   /\ (c = 237 => b[i + 1] <= 159)
                THEN Utf8Scan(b, i + 3,
                       Append(acc, (c - 224) * 4096 + (b[i + 1] - 128) * 64
                                    + (b[i + 2] - 128)))
           ELSE IF c \in 240..244 /\ has(3)
                   /\ (c = 240 => b[i + 1] >= 144)
                   /\ (c = 244 => b[i + 1] <= 143)
                THEN Utf8Scan(b, i + 4,
                       Append(acc, (c - 240) * 262144 + (b[i + 1] - 128) * 4096
                                    + (b[i + 2] - 128) * 64 + (b[i + 3] - 128)))
           ELSE [ok |-> FALSE, text |-> << >>]

decode_utf8(b) ==
  IF \A i \in 1..Len(b) : b[i] < 128 THEN [ok |-> TRUE, text |-> b]
  ELSE Utf8Scan(b, 1, << >>)

\* bytes.decode('latin-1'): every byte is its own code point; never fails.
decode_latin1(b) == b

\* str.encode('utf-8')
encode_utf8(s) ==
  LET e(c) == IF c < 128 THEN << c >>
              ELSE IF c < 2048 THEN << 192 + (c \div 64), 128 + (c % 64) >>
              ELSE IF c < 65536
                   THEN << 224 + (c \div 4096), 128 + ((c \div 64) % 64), 128 + (c % 64) >>
              ELSE << 240 + (c \div 262144), 128 + ((c \div 4096) % 64),
                      128 + ((c \div 64) % 64), 128 + (c % 64) >>
  IN  IF IsAscii(s) THEN s ELSE Concat([i \in 1..Len(s) |-> e(s[i])])

(***************************************************************************)
(* The character classes and the patterns of the regular expressions of    *)
(* _parse_raw_uri_line.  In a str pattern \w is every Unicode word         *)
(* character: below 256 these are the ASCII letters, digits and '_' and    *)
(* the Latin-1 letters and numerals; \d below 256 is 0-9.  (The payloads   *)
(* modelled hold no code point above 255 except U+2192, which is no word   *)
(* character.)                                                             *)
(***************************************************************************)
IsWord(c) ==
  \/ c \in 48..57 \/ c \in 65..90 \/ c = 95 \/ c \in 97..122
  \/ c \in {170, 178, 179, 181, 185, 186, 188, 189, 190}
  \/ c \in 192..214 \/ c \in 216..246 \/ c \in 248..255

\* [\w\d\.-]
IsHostChar(c) == IsWord(c) \/ c = 46 \/ c = 45

\* [\w\d-]
IsUuidChar(c) == IsWord(c) \/ c = 45

\* The last position of the longest run of characters of class P that starts
\* at position i (i - 1 when s[i] is not of the class).
RunEnd(s, i, P(_)) ==
  IF i > Len(s) \/ ~P(s[i]) THEN i - 1
  ELSE CHOOSE j \in i..Len(s) :
         /\ \A k \in i..j : P(s[k])
         /\ (j = Len(s) \/ ~P(s[j + 1]))

NoMatch == [ok |-> FALSE, g1 |-> << >>, g2 |-> << >>, g3 |-> << >>, g4 |-> << >>]

\* ([\w\d\.-]+):(\d+) matched at position i exactly: the groups, or no match.
\* A greedy run of host characters cannot give back characters (what follows
\* has to be ':'), so the run is the longest one.
HostPortAt(s, i) ==
  LET j == RunEnd(s, i, IsHostChar)
      e == RunEnd(s, j + 2, IsDigit)
  IN  IF j >= i /\ j + 1 <= Len(s) /\ s[j + 1] = 58 /\ e >= j + 2
      THEN [ok |-> TRUE, g1 |-> SubSeq(s, i, j), g2 |-> SubSeq(s, j + 2, e),
            g3 |-> << >>, g4 |-> << >>]
      ELSE NoMatch

\* re.search(r'([\w\d\.-]+):(\d+)', s): the leftmost match.
SearchHostPort(s) ==
  IF \E i \in 1..Len(s) : HostPortAt(s, i).ok
  THEN HostPortAt(s, CHOOSE i \in 1..Len(s) :
                       HostPortAt(s, i).ok /\ \A k \in 1..(i - 1) : ~HostPortAt(s, k).ok)
  ELSE NoMatch

\* ([\w\d-]+)@([\w\d\.-]+):(\d+) matched at position i exactly.
UuidHostPortAt(s, i) ==
  LET j == RunEnd(s, i, IsUuidChar)
      m == HostPortAt(s, j + 2)
  IN  IF j >= i /\ j + 1 <= Len(s) /\ s[j + 1] = 64 /\ m.ok
      THEN [ok |-> TRUE, g1 |-> SubSeq(s, i, j), g2 |-> m.g1, g3 |-> m.g2, g4 |-> << >>]
      ELSE NoMatch

\* re.search(r'([\w\d-]+)@([\w\d\.-]+):(\d+)', s)
SearchUuidHostPort(s) ==
  IF \E i \in 1..Len(s) : UuidHostPortAt(s, i).ok
  THEN UuidHostPortAt(s, CHOOSE i \in 1..Len(s) :
                       UuidHostPortAt(s, i).ok
                       /\ \A k \in 1..(i - 1) : ~UuidHostPortAt(s, k).ok)
  ELSE NoMatch

\* re.match(r"trojan://[^@]+@([\w\d\.-]+):(\d+)", s): [^@]+ ends at the first
\* '@' after the prefix and has to hold at least one character.
MatchTrojan(s) ==
  LET at == FindChar(s, 64, 10)
  IN  IF startswith(s, Str(<<"t", "r", "o", "j", "a", "n", ":", "/", "/">>)) /\ at > 10
      THEN HostPortAt(s, at + 1)
      ELSE NoMatch

\* re.match(r"tuic://([^:]+):([^@]+)@([\w\d\.-]+):(\d+)", s): [^:]+ ends at the
\* first ':' after the prefix, [^@]+ at the first '@' after that; each holds
\* at least one character.
MatchTuic(s) ==
  LET colon == FindChar(s, 58, 8)
      at    == IF colon > 0 THEN FindChar(s, 64, colon + 1) ELSE 0
      m     == HostPortAt(s, at + 1)
  IN  IF startswith(s, Str(<<"t", "u", "i", "c", ":", "/", "/">>))
         /\ colon > 8 /\ at > colon + 1 /\ m.ok
      THEN [ok |-> TRUE, g1 |-> SubSeq(s, 8, colon - 1),
            g2 |-> SubSeq(s, colon + 1, at - 1), g3 |-> m.g1, g4 |-> m.g2]
      ELSE NoMatch

\* re.match(r'^[a-zA-Z]+://', s)
MatchSchemeHead(s) ==
  LET j == RunEnd(s, 1, IsAlpha)
  IN  j >= 1 /\ Slice(s, j, j + 3) = Str(<<":", "/", "/">>)

(***************************************************************************)
(* urllib.parse: urlparse (netloc, query, username, hostname, port),       *)
(* unquote and the first value parse_qs gives for a name.  The lines       *)
(* parsed start with one of the known scheme prefixes, so the scheme is    *)
(* what precedes the first ':' and the netloc follows '//'.  (The check of *)
(* the address inside [ ] is not modelled: no modelled payload has one on  *)
(* a urlparse path.)                                                       *)
(***************************************************************************)
\* The position of the first character of s at or after start that is in cs,
\* Len(s) + 1 when there is none.
FirstOf(s, cs, start) ==
  IF \E i \in start..Len(s) : s[i] \in cs
  THEN CHOOSE i \in start..Len(s) : s[i] \in cs /\ \A j \in start..(i - 1) : s[j] \notin cs
  ELSE Len(s) + 1

\* The position of the last c in s, 0 when there is none (str.rpartition).
LastChar(s, c) ==
  IF \E i \in 1..Len(s) : s[i] = c
  THEN CHOOSE i \in 1..Len(s) : s[i] = c /\ \A j \in (i + 1)..Len(s) : s[j] # c
  ELSE 0

\* urlsplit(url): the netloc runs from after '//' to the first of '/?#'; the
\* fragment follows the first '#', the query the first '?' before it.  A netloc
\* with only one of '[' and ']' raises ValueError.
urlparse(url) ==
  LET colon  == FindChar(url, 58, 1)
      rest   == From(url, colon)
      hasNet == startswith(rest, Str(<<"/", "/">>))
      delim  == FirstOf(rest, {47, 63, 35}, 3)
      netloc == IF hasNet THEN SubSeq(rest, 3, delim - 1) ELSE << >>
      after  == IF hasNet THEN From(rest, delim - 1) ELSE rest
      hash   == FirstOf(after, {35}, 1)
      noFrag == SubSeq(after, 1, hash - 1)
      qm     == FirstOf(noFrag, {63}, 1)
      open   == \E i \in 1..Len(netloc) : netloc[i] = 91
      close  == \E i \in 1..Len(netloc) : netloc[i] = 93
  IN  [raises |-> open # close,
       scheme |-> lower(SubSeq(url, 1, colon - 1)),
       netloc |-> netloc,
       query  |-> From(noFrag, qm)]

\* SplitResult.username: None (has |-> FALSE) without '@' in the netloc.
username(u) ==
  LET at   == LastChar(u.netloc, 64)
      info == SubSeq(u.netloc, 1, at - 1)
  IN  IF at = 0 THEN [has |-> FALSE, v |-> << >>]
      ELSE [has |-> TRUE, v |-> SubSeq(info, 1, FirstOf(info, {58}, 1) - 1)]

\* SplitResult._hostinfo: the host and the port text (has |-> FALSE: None).
hostinfo(u) ==
  LET h     == From(u.netloc, LastChar(u.netloc, 64))
      br    == FirstOf(h, {91}, 1)
      inner == From(h, br)
      cl    == FirstOf(inner, {93}, 1)
      tail  == From(inner, cl)
      c1    == FirstOf(tail, {58}, 1)
      c2    == FirstOf(h, {58}, 1)
      host  == IF br <= Len(h) THEN SubSeq(inner, 1, cl - 1) ELSE SubSeq(h, 1, c2 - 1)
      port  == IF br <= Len(h) THEN From(tail, c1) ELSE From(h, c2)
  IN  [host |-> host, port |-> port]

\* SplitResult.hostname: None (has |-> FALSE) when empty; lower-cased up to a
\* '%' zone.
hostname(u) ==
  LET h  == hostinfo(u).host
      pct == FirstOf(h, {37}, 1)
  IN  [has |-> h # << >>,
       v   |-> lower(SubSeq(h, 1, pct - 1)) \o From(h, pct - 1)]

\* SplitResult.port: None (has |-> FALSE) without a port text; ValueError
\* (raises) when the text is not all ASCII digits or the number is above 65535.
port(u) ==
  Bind(hostinfo(u).port, LAMBDA t :
    LET digits  == \A i \in 1..Len(t) : IsDigit(t[i])
        bounded == Len(t) <= 6 \/ \A i \in 1..(Len(t) - 6) : t[i] = 48
    IN  Bind(IF digits /\ bounded THEN StrToInt(t) ELSE 65536, LAMBDA n :
          [has    |-> t # << >> /\ digits /\ n <= 65535,
           raises |-> t # << >> /\ (~digits \/ n > 65535),
           v      |-> IF t # << >> /\ digits /\ n <= 65535 THEN n ELSE 0]))

IsHex(c) == c \in 48..57 \/ c \in 65..70 \/ c \in 97..102

HexVal(c) == IF c \in 48..57 THEN c - 48 ELSE IF c \in 65..70 THEN c - 55 ELSE c - 87

\* unquote_to_bytes on ASCII text: %XX becomes the byte, any other '%' stays.
RECURSIVE unquote_to_bytes(_)
unquote_to_bytes(s) ==
  IF s = << >> THEN << >>
  ELSE IF s[1] = 37 /\ Len(s) >= 3 /\ IsHex(s[2]) /\ IsHex(s[3])
       THEN << 16 * HexVal(s[2]) + HexVal(s[3]) >> \o unquote_to_bytes(From(s, 3))
       ELSE << s[1] >> \o unquote_to_bytes(Tail(s))

\* unquote(s): the escapes decoded as UTF-8 with errors='replace' (a byte that
\* is not part of valid UTF-8 becomes U+FFFD).
unquote(s) ==
  LET b == unquote_to_bytes(s)
      d == decode_utf8(b)
  IN  IF d.ok THEN d.text
      ELSE [i \in 1..Len(b) |-> IF b[i] < 128 THEN b[i] ELSE 65533]

\* str.split(sep) on one character.
RECURSIVE split(_, _)
split(s, c) ==
  LET i == FindChar(s, c, 1)
  IN  IF i = 0 THEN << s >>
      ELSE << SubSeq(s, 1, i - 1) >> \o split(From(s, i), c)

PlusToSpace(s) == [i \in 1..Len(s) |-> IF s[i] = 43 THEN 32 ELSE s[i]]

\* parse_qs(query).get(name, [''])[0]: the value of the first 'name=value'
\* field with that name and a non-blank value ('' when there is none).
RECURSIVE FirstField(_, _)
FirstField(fields, name) ==
  IF fields = << >> THEN << >>
  ELSE LET f  == Head(fields)
           eq == FindChar(f, 61, 1)
       IN  IF eq > 0 /\ eq < Len(f)
              /\ unquote(PlusToSpace(SubSeq(f, 1, eq - 1))) = name
           THEN unquote(PlusToSpace(From(f, eq)))
           ELSE FirstField(Tail(fields), name)

parse_qs_first(query, name) == FirstField(split(query, 38), name)

(***************************************************************************)
(* Values of JSON and YAML documents: [t |-> type, v |-> value] with t one *)
(* of "str" (v a str), "int", "bool", "null" (v 0), "list" (v a sequence   *)
(* of values) and "dict" (v a sequence of <<key, value>> pairs, the last   *)
(* pair of a key being its value).                                         *)
(***************************************************************************)
VStr(x)  == [t |-> "str", v |-> x]
VInt(n)  == [t |-> "int", v |-> n]
VBool(b) == [t |-> "bool", v |-> b]
VNone    == [t |-> "null", v |-> 0]
VList(l) == [t |-> "list", v |-> l]
VDict(d) == [t |-> "dict", v |-> d]

\* bool(x)
Truthy(x) ==
  CASE x.t = "str"  -> x.v # << >>
    [] x.t = "int"  -> x.v # 0
    [] x.t = "bool" -> x.v
    [] x.t = "null" -> FALSE
    [] x.t = "list" -> x.v # << >>
    [] x.t = "dict" -> x.v # << >>

\* d.get(k): None when the key is absent.
Get(d, k) ==
  IF \E i \in 1..Len(d.v) : d.v[i][1] = k
  THEN d.v[CHOOSE i \in 1..Len(d.v) :
             d.v[i][1] = k /\ \A j \in (i + 1)..Len(d.v) : d.v[j][1] # k][2]
  ELSE VNone

\* d.get(k, default)
GetOr(d, k, default) ==
  IF \E i \in 1..Len(d.v) : d.v[i][1] = k THEN Get(d, k) ELSE default

\* k in d
HasKey(d, k) == \E i \in 1..Len(d.v) : d.v[i][1] = k

\* x or y
Or(x, y) == IF Truthy(x) THEN x ELSE y

HexDigit(n) == IF n < 10 THEN 48 + n ELSE 87 + n

HexDigitUpper(n) == IF n < 10 THEN 48 + n ELSE 55 + n

\* sep.join(ss)
Join(ss, sep) ==
  Concat([i \in 1..Len(ss) |-> IF i = 1 THEN ss[i] ELSE sep \o ss[i]])

\* a < b for two str (code point order).
RECURSIVE LexLess(_, _)
LexLess(a, b) ==
  IF b = << >> THEN FALSE
  ELSE IF a = << >> THEN TRUE
  ELSE IF a[1] # b[1] THEN a[1] < b[1]
  ELSE LexLess(Tail(a), Tail(b))

\* The <<key, value>> pairs of a dict, one per key (its last value, at the
\* place of its first occurrence, as a Python dict keeps them).
DictItems(d) ==
  LET first(i) == \A j \in 1..(i - 1) : d[j][1] # d[i][1]
      idx == SelectSeq([i \in 1..Len(d) |-> i], first)
  IN  [n \in 1..Len(idx) |-> <<d[idx[n]][1], Get(VDict(d), d[idx[n]][1])>>]

\* sorted(items) by key.
RECURSIVE SortItems(_)
SortItems(it) ==
  IF it = << >> THEN << >>
  ELSE LET m == CHOOSE i \in 1..Len(it) :
                  \A j \in 1..Len(it) : j = i \/ LexLess(it[i][1], it[j][1])
       IN  << it[m] >> \o SortItems(SubSeq(it, 1, m - 1) \o SubSeq(it, m + 1, Len(it)))

\* repr(s) of a str: single quotes unless the text holds one and no double
\* quote; the quote, the backslash and \n \r \t escaped.  (Other control
\* characters do not occur in the modelled payloads.)
ReprStr(x) ==
  LET q == IF (\E i \in 1..Len(x) : x[i] = 39) /\ ~(\E i \in 1..Len(x) : x[i] = 34)
           THEN 34 ELSE 39
      esc(c) == IF c = q \/ c = 92 THEN << 92, c >>
                ELSE IF c = 10 THEN << 92, 110 >>
                ELSE IF c = 13 THEN << 92, 114 >>
                ELSE IF c = 9 THEN << 92, 116 >>
                ELSE << c >>
  IN  << q >> \o Concat([i \in 1..Len(x) |-> esc(x[i])]) \o << q >>

\* The text of a string inside json.dumps(..., ensure_ascii=False).
JsonStr(x) ==
  LET esc(c) == IF c = 34 \/ c = 92 THEN << 92, c >>
                ELSE IF c = 10 THEN << 92, 110 >>
                ELSE IF c = 13 THEN << 92, 114 >>
                ELSE IF c = 9 THEN << 92, 116 >>
                ELSE IF c = 8 THEN << 92, 98 >>
                ELSE IF c = 12 THEN << 92, 102 >>
                ELSE IF c < 32 THEN << 92, 117, 48, 48, HexDigit(c \div 16), HexDigit(c % 16) >>
                ELSE << c >>
  IN  << 34 >> \o Concat([i \in 1..Len(x) |-> esc(x[i])]) \o << 34 >>

SignedInt(n) == IF n < 0 THEN << 45 >> \o IntToStr(0 - n) ELSE IntToStr(n)

\* str(x) / repr(x) of a value (they differ for a str only).
RECURSIVE PyRepr(_)
PyRepr(x) ==
  CASE x.t = "str"  -> ReprStr(x.v)
    [] x.t = "int"  -> SignedInt(x.v)
    [] x.t = "bool" -> IF x.v THEN Str(<<"T", "r", "u", "e">>)
                       ELSE Str(<<"F", "a", "l", "s", "e">>)
    [] x.t = "null" -> Str(<<"N", "o", "n", "e">>)
    [] x.t = "list" ->
         Str(<<"[">>) \o Join([i \in 1..Len(x.v) |-> PyRepr(x.v[i])], Str(<<",", " ">>))
           \o Str(<<"]">>)
    [] x.t = "dict" ->
         LET it == DictItems(x.v)
         IN  Str(<<"{">>)
               \o Join([i \in 1..Len(it) |->
                          ReprStr(it[i][1]) \o Str(<<":", " ">>) \o PyRepr(it[i][2])],
                       Str(<<",", " ">>))
               \o Str(<<"}">>)

\* json.dumps(x, ensure_ascii=False), the keys of a dict in the order given by
\* order (DictItems for the insertion order, sorted for sort_keys=True).
RECURSIVE JsonDumps(_, _)
JsonDumps(x, sorted) ==
  CASE x.t = "str"  -> JsonStr(x.v)
    [] x.t = "int"  -> SignedInt(x.v)
    [] x.t = "bool" -> IF x.v THEN Str(<<"t", "r", "u", "e">>)
                       ELSE Str(<<"f", "a", "l", "s", "e">>)
    [] x.t = "null" -> Str(<<"n", "u", "l", "l">>)
    [] x.t = "list" ->
         Str(<<"[">>) \o Join([i \in 1..Len(x.v) |-> JsonDumps(x.v[i], sorted)],
                              Str(<<",", " ">>))
           \o Str(<<"]">>)
    [] x.t = "dict" ->
         LET it == IF sorted THEN SortItems(DictItems(x.v)) ELSE DictItems(x.v)
         IN  Str(<<"{">>)
               \o Join([i \in 1..Len(it) |->
                          JsonStr(it[i][1]) \o Str(<<":", " ">>) \o JsonDumps(it[i][2], sorted)],
                       Str(<<",", " ">>))
               \o Str(<<"}">>)

\* The text an f-string puts for a value: str(x).
Format(x) == IF x.t = "str" THEN x.v ELSE PyRepr(x)

\* urllib.parse.quote(s): the UTF-8 bytes of s, each one that is not a letter,
\* a digit or one of _ . - ~ / written %XX.
quote(x) ==
  LET b == encode_utf8(x)
      q(c) == IF IsAlpha(c) \/ IsDigit(c) \/ c \in {95, 46, 45, 126, 47} THEN << c >>
              ELSE << 37, HexDigitUpper(c \div 16), HexDigitUpper(c % 16) >>
  IN  Concat([i \in 1..Len(b) |-> q(b[i])])

(***************************************************************************)
(* json.loads on the JSON texts the payloads hold: a scalar (string with   *)
(* the simple escapes, integer, true, false, null), an object or an array  *)
(* of scalars, with whitespace around the tokens.  ok |-> FALSE stands for *)
(* json.JSONDecodeError.  (Floats, \u escapes and nested containers do not *)
(* occur in the modelled payloads.)                                        *)
(***************************************************************************)
JsonFail == [ok |-> FALSE, val |-> VNone, next |-> 0]

RECURSIVE JsonSkipWs(_, _)
JsonSkipWs(s, i) ==
  IF i <= Len(s) /\ s[i] \in {32, 9, 10, 13} THEN JsonSkipWs(s, i + 1) ELSE i

\* The string whose opening quote is at position i - 1: its text up to the
\* closing quote, control characters refused.
RECURSIVE JsonStringBody(_, _, _)
JsonStringBody(s, i, acc) ==
  IF i > Len(s) \/ s[i] < 32 THEN JsonFail
  ELSE IF s[i] = 34 THEN [ok |-> TRUE, val |-> VStr(acc), next |-> i + 1]
  ELSE IF s[i] = 92
       THEN IF i + 1 > Len(s) THEN JsonFail
            ELSE LET e == s[i + 1]
                     c == CASE e = 34 -> 34 [] e = 92 -> 92 [] e = 47 -> 47
                            [] e = 98 -> 8 [] e = 102 -> 12 [] e = 110 -> 10
                            [] e = 114 -> 13 [] e = 116 -> 9 [] OTHER -> -1
                 IN  IF c = -1 THEN JsonFail
                     ELSE JsonStringBody(s, i + 2, Append(acc, c))
  ELSE JsonStringBody(s, i + 1, Append(acc, s[i]))

\* -?(0|[1-9][0-9]*) at position i; a fraction or exponent after it is refused.
JsonNumber(s, i) ==
  LET neg == i <= Len(s) /\ s[i] = 45
      d   == IF neg THEN i + 1 ELSE i
      e   == RunEnd(s, d, IsDigit)
      e1  == IF d <= Len(s) /\ s[d] = 48 THEN d ELSE e
      n   == StrToInt(SubSeq(s, d, e1))
  IN  IF e1 < d \/ (e1 < Len(s) /\ s[e1 + 1] \in {46, 69, 101}) THEN JsonFail
      ELSE [ok |-> TRUE, val |-> VInt(IF neg THEN 0 - n ELSE n), next |-> e1 + 1]

JsonScalar(s, i) ==
  IF i > Len(s) THEN JsonFail
  ELSE IF s[i] = 34 THEN JsonStringBody(s, i + 1, << >>)
  ELSE IF startswith(From(s, i - 1), Str(<<"t", "r", "u", "e">>))
       THEN [ok |-> TRUE, val |-> VBool(TRUE), next |-> i + 4]
  ELSE IF startswith(From(s, i - 1), Str(<<"f", "a", "l", "s", "e">>))
       THEN [ok |-> TRUE, val |-> VBool(FALSE), next |-> i + 5]
  ELSE IF startswith(From(s, i - 1), Str(<<"n", "u", "l", "l">>))
       THEN [ok |-> TRUE, val |-> VNone, next |-> i + 4]
  ELSE JsonNumber(s, i)

\* The members of an object from the key at position i to the closing brace.
RECURSIVE JsonMembers(_, _, _)
JsonMembers(s, i, acc) ==
  IF i > Len(s) \/ s[i] # 34 THEN JsonFail
  ELSE LET k == JsonStringBody(s, i + 1, << >>)
           c == JsonSkipWs(s, k.next)
           v == JsonScalar(s, JsonSkipWs(s, c + 1))
           e == JsonSkipWs(s, v.next)
       IN  IF ~k.ok \/ c > Len(s) \/ s[c] # 58 \/ ~v.ok \/ e > Len(s) THEN JsonFail
           ELSE IF s[e] = 125
                THEN [ok |-> TRUE, val |-> VDict(Append(acc, <<k.val.v, v.val>>)),
                      next |-> e + 1]
           ELSE IF s[e] = 44
                THEN JsonMembers(s, JsonSkipWs(s, e + 1), Append(acc, <<k.val.v, v.val>>))
           ELSE JsonFail

\* The elements of an array from the value at position i to the closing bracket.
RECURSIVE JsonElements(_, _, _)
JsonElements(s, i, acc) ==
  LET v == JsonScalar(s, i)
      e == JsonSkipWs(s, v.next)
  IN  IF ~v.ok \/ e > Len(s) THEN JsonFail
      ELSE IF s[e] = 93 THEN [ok |-> TRUE, val |-> VList(Append(acc, v.val)), next |-> e + 1]
      ELSE IF s[e] = 44 THEN JsonElements(s, JsonSkipWs(s, e + 1), Append(acc, v.val))
      ELSE JsonFail

JsonValue(s, i) ==
  IF i > Len(s) THEN JsonFail
  ELSE IF s[i] = 123
       THEN LET j == JsonSkipWs(s, i + 1)
            IN  IF j <= Len(s) /\ s[j] = 125
                THEN [ok |-> TRUE, val |-> VDict(<< >>), next |-> j + 1]
                ELSE JsonMembers(s, j, << >>)
  ELSE IF s[i] = 91
       THEN LET j == JsonSkipWs(s, i + 1)
            IN  IF j <= Len(s) /\ s[j] = 93
                THEN [ok |-> TRUE, val |-> VList(<< >>), next |-> j + 1]
                ELSE JsonElements(s, j, << >>)
  ELSE JsonScalar(s, i)

json_loads(s) ==
  Bind(JsonValue(s, JsonSkipWs(s, 1)), LAMBDA r :
    IF r.ok /\ JsonSkipWs(s, r.next) > Len(s) THEN [ok |-> TRUE, val |-> r.val]
    ELSE [ok |-> FALSE, val |-> VNone])

(***************************************************************************)
(* _parse_raw_uri_line.  A result is a record:                             *)
(*   kind "node"  : the pair (key, uri) returned, and the rule (the return *)
(*                  statement) that produced it;                           *)
(*   kind "none"  : None;                                                  *)
(*   kind "raise" : an exception left the function (exc names its type);   *)
(*   kind "next"  : (inside the function only) no rule has returned yet.   *)
(***************************************************************************)
Node(key, uri, rule) ==
  [kind |-> "node", key |-> key, uri |-> uri, rule |-> rule, exc |-> ""]

NoneResult == [kind |-> "none", key |-> << >>, uri |-> << >>, rule |-> "", exc |-> ""]

Raise(exc) == [kind |-> "raise", key |-> << >>, uri |-> << >>, rule |-> "", exc |-> exc]

Continue == [kind |-> "next", key |-> << >>, uri |-> << >>, rule |-> "", exc |-> ""]

\* The scheme prefixes of protocol_prefixes.
Scheme ==
  [ ss |-> Str(<<"s", "s", ":", "/", "/">>),
    vmess |-> Str(<<"v", "m", "e", "s", "s", ":", "/", "/">>),
    trojan |-> Str(<<"t", "r", "o", "j", "a", "n", ":", "/", "/">>),
    vless |-> Str(<<"v", "l", "e", "s", "s", ":", "/", "/">>),
    snell |-> Str(<<"s", "n", "e", "l", "l", ":", "/", "/">>),
    hysteria |-> Str(<<"h", "y", "s", "t", "e", "r", "i", "a", ":", "/", "/">>),
    hysteria2 |-> Str(<<"h", "y", "s", "t", "e", "r", "i", "a", "2", ":", "/", "/">>),
    tuic |-> Str(<<"t", "u", "i", "c", ":", "/", "/">>),
    ssr |-> Str(<<"s", "s", "r", ":", "/", "/">>),
    http |-> Str(<<"h", "t", "t", "p", ":", "/", "/">>),
    https |-> Str(<<"h", "t", "t", "p", "s", ":", "/", "/">>),
    socks5 |-> Str(<<"s", "o", "c", "k", "s", "5", ":", "/", "/">>) ]

\* The field names read from a decoded JSON payload, a URI query or a manifest
\* entry.
Key ==
  [ add |-> Str(<<"a", "d", "d">>),
    server |-> Str(<<"s", "e", "r", "v", "e", "r">>),
    port |-> Str(<<"p", "o", "r", "t">>),
    id |-> Str(<<"i", "d">>),
    uuid |-> Str(<<"u", "u", "i", "d">>),
    psk |-> Str(<<"p", "s", "k">>),
    auth |-> Str(<<"a", "u", "t", "h">>),
    type |-> Str(<<"t", "y", "p", "e">>),
    name |-> Str(<<"n", "a", "m", "e">>),
    cipher |-> Str(<<"c", "i", "p", "h", "e", "r">>),
    password |-> Str(<<"p", "a", "s", "s", "w", "o", "r", "d">>),
    alterId |-> Str(<<"a", "l", "t", "e", "r", "I", "d">>),
    network |-> Str(<<"n", "e", "t", "w", "o", "r", "k">>),
    ws_opts |-> Str(<<"w", "s", "-", "o", "p", "t", "s">>),
    headers |-> Str(<<"h", "e", "a", "d", "e", "r", "s">>),
    Host |-> Str(<<"H", "o", "s", "t">>),
    path |-> Str(<<"p", "a", "t", "h">>),
    tls |-> Str(<<"t", "l", "s">>),
    sni |-> Str(<<"s", "n", "i">>),
    skip |-> Str(<<"s", "k", "i", "p", "-", "c", "e", "r", "t", "-", "v", "e", "r", "i", "f", "y">>),
    alpn |-> Str(<<"a", "l", "p", "n">>),
    fast_open |-> Str(<<"f", "a", "s", "t", "-", "o", "p", "e", "n">>),
    mptcp |-> Str(<<"m", "p", "t", "c", "p">>),
    obfs |-> Str(<<"o", "b", "f", "s">>),
    obfs_pw |-> Str(<<"o", "b", "f", "s", "-", "p", "a", "s", "s", "w", "o", "r", "d">>),
    up |-> Str(<<"u", "p">>),
    down |-> Str(<<"d", "o", "w", "n">>),
    version |-> Str(<<"v", "e", "r", "s", "i", "o", "n">>),
    cc |-> Str(<<"c", "o", "n", "g", "e", "s", "t", "i", "o", "n", "-", "c", "o", "n", "t", "r", "o", "l", "l", "e", "r">>),
    udp_relay |-> Str(<<"u", "d", "p", "-", "r", "e", "l", "a", "y", "-", "m", "o", "d", "e">>),
    proxies |-> Str(<<"p", "r", "o", "x", "i", "e", "s">>),
    Proxy |-> Str(<<"P", "r", "o", "x", "y">>),
    proxy_providers |-> Str(<<"p", "r", "o", "x", "y", "-", "p", "r", "o", "v", "i", "d", "e", "r", "s">>),
    aid |-> Str(<<"a", "i", "d">>),
    ws_headers |-> Str(<<"w", "s", "-", "h", "e", "a", "d", "e", "r", "s">>),
    ws_path |-> Str(<<"w", "s", "-", "p", "a", "t", "h">>) ]

protocol_prefixes ==
  << Scheme.ss, Scheme.vmess, Scheme.trojan, Scheme.vless, Scheme.snell, Scheme.hysteria, Scheme.hysteria2, Scheme.tuic,
     Scheme.ssr, Scheme.http, Scheme.https, Scheme.socks5 >>

\* The rule, comment and advertisement lines that are skipped, and every line
\* that does not start with letters followed by '://'.
RuleLinePrefixes ==
  { Str(<<"-", " ", "D", "O", "M", "A", "I", "N", "-", "S", "U", "F", "F", "I", "X">>),
    Str(<<"-", " ", "D", "O", "M", "A", "I", "N", "-", "K", "E", "Y", "W", "O", "R", "D">>),
    Str(<<"-", " ", "I", "P", "-", "C", "I", "D", "R">>),
    Str(<<"-", " ", "G", "E", "O", "I", "P">>),
    Str(<<"-", " ", "P", "R", "O", "C", "E", "S", "S", "-", "N", "A", "M", "E">>),
    Str(<<"-", " ", "R", "U", "L", "E", "-", "S", "E", "T">>),
    Str(<<"-", " ", "M", "A", "T", "C", "H">>),
    Str(<<"#">>) }

LineFiltered(line) ==
  \/ \E p \in RuleLinePrefixes : startswith(line, p)
  \/ Contains(line, << ARROW >> \o Str(<<" ", "t", "g", "@">>))
  \/ Contains(lower(line), Str(<<"n", "a", "m", "e", ":">>))
  \/ ~MatchSchemeHead(line)

AT    == << 64 >>
COLON == << 58 >>

\* The rules on the base64 payload of ss://, vmess:// and vless:// lines: the
\* payload (with '==' appended) decoded, then read as a JSON object, or, when
\* it is no JSON, searched for server:port (ss) or uuid@server:port (vless).
Base64Rules(prefix, node_uri) ==
  Bind(From(node_uri, Len(prefix)), LAMBDA encoded_part :
  Bind(b64decode(encoded_part \o Str(<<"=", "=">>)), LAMBDA decoded :
    IF ~IsAscii(encoded_part) \/ ~decoded.ok THEN Continue
    ELSE
  Bind(decode_utf8(decoded.bytes), LAMBDA u8 :
  Bind(IF u8.ok THEN u8.text ELSE decode_latin1(decoded.bytes), LAMBDA content :
  Bind(json_loads(content), LAMBDA js :
    IF js.ok
    THEN LET node_info == js.val
             server    == Or(Get(node_info, Key.add), Get(node_info, Key.server))
             jport     == Get(node_info, Key.port)
             id        == GetOr(node_info, Key.id, VStr(<< >>))
             uuid      == IF Truthy(id) THEN id ELSE GetOr(node_info, Key.uuid, VStr(<< >>))
         IN  IF node_info.t # "dict" THEN Raise("AttributeError")
             ELSE IF prefix = Scheme.vmess
                  THEN IF Truthy(server) /\ Truthy(jport) /\ Truthy(id)
                       THEN Node(Scheme.vmess \o Format(id) \o AT \o Format(server)
                                   \o COLON \o Format(jport), node_uri, "json")
                       ELSE Continue
             ELSE IF prefix = Scheme.vless
                  THEN IF Truthy(server) /\ Truthy(jport) /\ Truthy(uuid)
                       THEN Node(Scheme.vless \o Format(uuid) \o AT \o Format(server)
                                   \o COLON \o Format(jport), node_uri, "json")
                       ELSE Continue
             ELSE IF Truthy(server) /\ Truthy(jport)
                  THEN Node(Scheme.ss \o Format(server) \o COLON \o Format(jport),
                            node_uri, "json")
                  ELSE Continue
    ELSE IF prefix = Scheme.ss
    THEN Bind(SearchHostPort(content), LAMBDA m :
           IF m.ok THEN Node(Scheme.ss \o m.g1 \o COLON \o m.g2, node_uri, "decoded")
           ELSE Continue)
    ELSE IF prefix = Scheme.vless
    THEN Bind(SearchUuidHostPort(content), LAMBDA m :
           IF m.ok
           THEN Node(Scheme.vless \o m.g1 \o AT \o m.g2 \o COLON \o m.g3, node_uri, "decoded")
           ELSE Continue)
    ELSE Continue)))))

\* The rules on the line as a URI, one per scheme.
UriRules(prefix, node_uri) ==
  Bind(urlparse(node_uri), LAMBDA u :
  Bind(username(u), LAMBDA user :
  Bind(hostname(u), LAMBDA host :
  Bind(port(u), LAMBDA prt :
  Bind(host.v \o COLON \o IntToStr(prt.v), LAMBDA hp :
    CASE prefix = Scheme.ss ->
           Bind(split(From(node_uri, 5), 64), LAMBDA parts :
           Bind(SearchHostPort(IF Len(parts) >= 2
                               THEN From(node_uri, 5 + Len(parts[1]) + 1)
                               ELSE From(node_uri, 5)), LAMBDA m :
             IF m.ok THEN Node(Scheme.ss \o m.g1 \o COLON \o m.g2, node_uri, "uri")
             ELSE Continue))
      [] prefix = Scheme.vmess -> NoneResult
      [] prefix = Scheme.trojan ->
           Bind(MatchTrojan(node_uri), LAMBDA m :
             IF m.ok THEN Node(Scheme.trojan \o m.g1 \o COLON \o m.g2, node_uri, "uri")
             ELSE Continue)
      [] prefix = Scheme.vless ->
           IF u.raises \/ prt.raises THEN Raise("ValueError")
           ELSE IF user.v # << >> /\ host.has /\ prt.has /\ prt.v # 0
                THEN Node(Scheme.vless \o user.v \o AT \o hp, node_uri, "uri")
                ELSE Continue
      [] prefix \in {Scheme.http, Scheme.https} ->
           IF u.raises \/ (host.has /\ prt.raises) THEN Raise("ValueError")
           ELSE IF host.has /\ prt.has /\ prt.v # 0
                THEN Node(u.scheme \o Str(<<":", "/", "/">>) \o hp, node_uri, "uri")
                ELSE Continue
      [] prefix = Scheme.socks5 ->
           IF u.raises \/ (host.has /\ prt.raises) THEN Raise("ValueError")
           ELSE IF host.has /\ prt.has /\ prt.v # 0
                THEN Node(Scheme.socks5 \o hp, node_uri, "uri")
                ELSE Continue
      [] prefix = Scheme.snell ->
           Bind(parse_qs_first(u.query, Key.psk), LAMBDA psk :
             IF u.raises \/ prt.raises THEN Raise("ValueError")
             ELSE IF host.has /\ prt.has /\ prt.v # 0 /\ psk # << >>
                  THEN Node(Scheme.snell \o hp \o Str(<<"?", "p", "s", "k", "=">>) \o psk,
                            node_uri, "uri")
                  ELSE Continue)
      [] prefix = Scheme.hysteria ->
           Bind(parse_qs_first(u.query, Key.auth), LAMBDA auth :
             IF u.raises \/ prt.raises THEN Raise("ValueError")
             ELSE IF host.has /\ prt.has /\ prt.v # 0 /\ auth # << >>
                  THEN Node(Scheme.hysteria \o hp \o Str(<<"?", "a", "u", "t", "h", "=">>) \o auth,
                            node_uri, "uri")
                  ELSE Continue)
      [] prefix = Scheme.hysteria2 ->
           Bind(unquote(user.v), LAMBDA pwd :
             IF u.raises \/ prt.raises THEN Raise("ValueError")
             ELSE IF host.has /\ prt.has /\ prt.v # 0 /\ pwd # << >>
                  THEN Node(Scheme.hysteria2 \o pwd \o AT \o hp, node_uri, "uri")
                  ELSE Continue)
      [] prefix = Scheme.tuic ->
           Bind(MatchTuic(node_uri), LAMBDA m :
             IF m.ok
             THEN Node(Scheme.tuic \o m.g1 \o COLON \o m.g2 \o AT \o m.g3
                         \o COLON \o m.g4, node_uri, "uri")
             ELSE Continue)
      [] prefix = Scheme.ssr ->
           Bind(b64decode(From(node_uri, 6) \o Str(<<"=", "=">>)), LAMBDA ssr :
           Bind(decode_utf8(ssr.bytes), LAMBDA ssr8 :
           Bind(split(ssr8.text, 58), LAMBDA sp :
             IF IsAscii(From(node_uri, 6)) /\ ssr.ok /\ ssr8.ok /\ Len(sp) >= 5
             THEN Node(Scheme.ssr \o sp[1] \o COLON \o sp[2], node_uri, "uri")
             ELSE Continue))))))))

\* The key of a line that starts with a known prefix and that no rule reads:
\* the prefix followed by the first 100 characters of the line.
dedup_id_base(prefix, node_uri) == prefix \o Slice(node_uri, 0, 100)

\* The lines 186-344: the rules of the first prefix the line starts with, and
\* the generic node when none of them returns.
PrefixRules(prefix, node_uri) ==
  Bind(IF prefix \in {Scheme.ss, Scheme.vmess, Scheme.vless}
       THEN Base64Rules(prefix, node_uri)
       ELSE Continue, LAMBDA b :
  Bind(IF b.kind = "next" THEN UriRules(prefix, node_uri) ELSE b, LAMBDA r :
    IF r.kind = "next"
    THEN Node(dedup_id_base(prefix, node_uri), node_uri, "fallback")
    ELSE r))

parse_raw_uri_line(line) ==
  IF line = << >> \/ LineFiltered(line) THEN NoneResult
  ELSE IF \E i \in 1..Len(protocol_prefixes) : startswith(line, protocol_prefixes[i])
       THEN PrefixRules(
              protocol_prefixes[CHOOSE i \in 1..Len(protocol_prefixes) :
                                  startswith(line, protocol_prefixes[i])],
              strip(line))
       ELSE NoneResult

(***************************************************************************)
(* _parse_clash_proxy_entry: one map of the 'proxies' list of a manifest   *)
(* converted to (dedup_id, node_uri).  The entry is a dict value as the    *)
(* YAML parser returns it.  A key of None is the str None (no str has a *)
(* negative code point).                                                   *)
(***************************************************************************)
None == << -1 >>

IsStr(x, text) == x.t = "str" /\ x.v = text

\* The '#tag' a non-empty name adds to the URI.
Tag(name) == IF name = << >> THEN << >> ELSE Str(<<"#">>) \o quote(name)

\* "?" + "&".join(params) if params else ""
QueryString(params) == IF params = << >> THEN << >> ELSE Str(<<"?">>) \o Join(params, Str(<<"&">>))

\* [text] when the condition holds, [] otherwise.
Opt(cond, text) == IF cond THEN << text >> ELSE << >>

\* ','.join(x): x a list of str, a str (its characters are joined) or a dict
\* (its keys are joined); any other value raises TypeError (ok |-> FALSE).
CommaJoin(x) ==
  IF x.t = "list" /\ \A i \in 1..Len(x.v) : x.v[i].t = "str"
  THEN [ok |-> TRUE, v |-> Join([i \in 1..Len(x.v) |-> x.v[i].v], Str(<<",">>))]
  ELSE IF x.t = "str"
  THEN [ok |-> TRUE, v |-> Join([i \in 1..Len(x.v) |-> << x.v[i] >>], Str(<<",">>))]
  ELSE IF x.t = "dict"
  THEN [ok |-> TRUE,
        v |-> Join([i \in 1..Len(DictItems(x.v)) |-> DictItems(x.v)[i][1]], Str(<<",">>))]
  ELSE [ok |-> FALSE, v |-> << >>]

ClashSS(e, server, prt, name) ==
  LET cipher   == Get(e, Key.cipher)
      password == Get(e, Key.password)
      auth     == rstripEq(urlsafe_b64encode(
                    encode_utf8(Format(cipher) \o COLON \o Format(password))))
  IN  IF Truthy(cipher) /\ Truthy(password)
      THEN Node(Scheme.ss \o server \o COLON \o prt,
                Scheme.ss \o auth \o AT \o server \o COLON \o prt \o Tag(name), "clash")
      ELSE Continue

\* The values the VMess JSON leaves out: v in ["", 0, False, "none", "tcp"].
VmessDropped(x) ==
  \/ x.t = "str" /\ x.v \in {<< >>, Str(<<"n", "o", "n", "e">>), Str(<<"t", "c", "p">>)}
  \/ x.t = "int" /\ x.v = 0
  \/ x.t = "bool" /\ x.v = FALSE

ClashVmess(e, server, prt, name) ==
  LET ws      == GetOr(e, Key.ws_opts, VDict(<< >>))
      headers == GetOr(ws, Key.headers, VDict(<< >>))
      id      == GetOr(e, Key.uuid, VStr(<< >>))
      config  == << <<Str(<<"v">>), VStr(Str(<<"2">>))>>,
                    <<Str(<<"p", "s">>), VStr(name)>>,
                    <<Str(<<"a", "d", "d">>), Get(e, Key.server)>>,
                    <<Str(<<"p", "o", "r", "t">>), Get(e, Key.port)>>,
                    <<Str(<<"i", "d">>), id>>,
                    <<Str(<<"a", "i", "d">>), GetOr(e, Key.alterId, VInt(0))>>,
                    <<Str(<<"s", "c", "y">>), GetOr(e, Key.cipher, VStr(Str(<<"a", "u", "t", "o">>)))>>,
                    <<Str(<<"n", "e", "t">>), GetOr(e, Key.network, VStr(Str(<<"t", "c", "p">>)))>>,
                    <<Str(<<"t", "y", "p", "e">>), GetOr(e, Key.type, VStr(Str(<<"n", "o", "n", "e">>)))>>,
                    <<Str(<<"h", "o", "s", "t">>), GetOr(headers, Key.Host, VStr(<< >>))>>,
                    <<Str(<<"p", "a", "t", "h">>), GetOr(ws, Key.path, VStr(<< >>))>>,
                    <<Str(<<"t", "l", "s">>), VStr(IF Truthy(Get(e, Key.tls)) THEN Str(<<"t", "l", "s">>) ELSE << >>)>>,
                    <<Str(<<"s", "n", "i">>), GetOr(e, Key.sni, VStr(<< >>))>>,
                    <<Str(<<"s", "k", "i", "p", "-", "c", "e", "r", "t", "-", "v", "e", "r", "i", "f", "y">>), GetOr(e, Key.skip, VBool(FALSE))>> >>
      keep(p)  == ~VmessDropped(p[2])
      kept     == SelectSeq(config, keep)
      node_uri == Scheme.vmess \o rstripEq(b64encode(encode_utf8(JsonDumps(VDict(kept), FALSE))))
  IN  IF ws.t # "dict" \/ headers.t # "dict" THEN Raise("AttributeError")
      ELSE IF VmessDropped(id) THEN Node(None, node_uri, "clash")
      ELSE Node(Scheme.vmess \o Format(id) \o AT \o server \o COLON \o prt, node_uri, "clash")

ClashTrojan(e, server, prt, name) ==
  LET password == Get(e, Key.password)
      node_uri == Scheme.trojan \o Format(password) \o AT \o server \o COLON \o prt
                    \o (IF Truthy(Get(e, Key.tls)) THEN Str(<<"?", "t", "l", "s", "=", "t", "r", "u", "e">>) ELSE << >>)
                    \o (IF Truthy(Get(e, Key.skip)) THEN Str(<<"&", "s", "k", "i", "p", "-", "c", "e", "r", "t", "-", "v", "e", "r", "i", "f", "y", "=", "t", "r", "u", "e">>) ELSE << >>)
                    \o (IF Truthy(Get(e, Key.sni)) THEN Str(<<"&", "s", "n", "i", "=">>) \o Format(Get(e, Key.sni))
                        ELSE << >>)
                    \o Tag(name)
  IN  IF Truthy(password) THEN Node(Scheme.trojan \o server \o COLON \o prt, node_uri, "clash")
      ELSE Continue

\* 'Host' in headers, for the truthy value of ws-opts['headers'].
HostIn(headers) ==
  CASE headers.t = "dict" -> [ok |-> TRUE, v |-> HasKey(headers, Key.Host)]
    [] headers.t = "str"  -> [ok |-> TRUE, v |-> Contains(headers.v, Key.Host)]
    [] headers.t = "list" ->
         [ok |-> TRUE, v |-> \E i \in 1..Len(headers.v) : IsStr(headers.v[i], Key.Host)]
    [] OTHER -> [ok |-> FALSE, v |-> FALSE]

ClashVless(e, server, prt, name) ==
  LET uuid    == Get(e, Key.uuid)
      ws      == Get(e, Key.ws_opts)
      wsPath  == Get(ws, Key.path)
      headers == Get(ws, Key.headers)
      hostIn  == HostIn(headers)
      hasHost == Truthy(ws) /\ Truthy(headers) /\ hostIn.v
      params  == Opt(Truthy(Get(e, Key.tls)), Str(<<"t", "l", "s", "=", "t", "r", "u", "e">>))
                   \o Opt(Truthy(Get(e, Key.skip)), Str(<<"s", "k", "i", "p", "-", "c", "e", "r", "t", "-", "v", "e", "r", "i", "f", "y", "=", "t", "r", "u", "e">>))
                   \o Opt(Truthy(Get(e, Key.network)), Str(<<"t", "y", "p", "e", "=">>) \o Format(Get(e, Key.network)))
                   \o Opt(Truthy(ws) /\ Truthy(wsPath), Str(<<"p", "a", "t", "h", "=">>) \o Format(wsPath))
                   \o Opt(hasHost, Str(<<"h", "o", "s", "t", "=">>) \o Format(Get(headers, Key.Host)))
      base    == Scheme.vless \o Format(uuid) \o AT \o server \o COLON \o prt
  IN  IF ~Truthy(uuid) THEN Continue
      ELSE IF Truthy(ws) /\ ws.t # "dict" THEN Raise("AttributeError")
      ELSE IF Truthy(ws) /\ Truthy(headers) /\ headers.t # "dict"
                /\ (~hostIn.ok \/ hostIn.v) THEN Raise("TypeError")
      ELSE Node(base, base \o QueryString(params) \o Tag(name), "clash")

\* name=value when the entry's field is truthy.
Field(e, k, label) == Opt(Truthy(Get(e, k)), label \o Format(Get(e, k)))

ClashHysteria(e, server, prt, name) ==
  LET alpn   == Get(e, Key.alpn)
      joined == CommaJoin(alpn)
      params == Field(e, Key.auth, Str(<<"a", "u", "t", "h", "=">>))
                  \o Opt(Truthy(alpn), Str(<<"a", "l", "p", "n", "=">>) \o joined.v)
                  \o Opt(Truthy(Get(e, Key.fast_open)), Str(<<"f", "a", "s", "t", "o", "p", "e", "n", "=", "t", "r", "u", "e">>))
                  \o Opt(Truthy(Get(e, Key.mptcp)), Str(<<"m", "p", "t", "c", "p", "=", "t", "r", "u", "e">>))
                  \o Field(e, Key.obfs, Str(<<"o", "b", "f", "s", "=">>))
                  \o Field(e, Key.obfs_pw, Str(<<"o", "b", "f", "s", "-", "p", "a", "s", "s", "w", "o", "r", "d", "=">>))
                  \o Field(e, Key.up, Str(<<"u", "p", "m", "b", "p", "s", "=">>))
                  \o Field(e, Key.down, Str(<<"d", "o", "w", "n", "m", "b", "p", "s", "=">>))
                  \o Opt(Truthy(Get(e, Key.tls)), Str(<<"t", "l", "s", "=", "t", "r", "u", "e">>))
                  \o Opt(Truthy(Get(e, Key.skip)), Str(<<"i", "n", "s", "e", "c", "u", "r", "e", "=", "1">>))
                  \o Field(e, Key.sni, Str(<<"s", "n", "i", "=">>))
      base   == Scheme.hysteria \o server \o COLON \o prt
  IN  IF ~Truthy(Get(e, Key.password)) THEN Continue
      ELSE IF Truthy(alpn) /\ ~joined.ok THEN Raise("TypeError")
      ELSE Node(base \o (IF Truthy(Get(e, Key.auth))
                         THEN Str(<<"?", "a", "u", "t", "h", "=">>) \o Format(Get(e, Key.auth)) ELSE << >>),
                base \o QueryString(params) \o Tag(name), "clash")

ClashHysteria2(e, server, prt, name) ==
  LET password == Get(e, Key.password)
      params   == Opt(Truthy(Get(e, Key.tls)), Str(<<"t", "l", "s", "=", "t", "r", "u", "e">>))
                    \o Opt(Truthy(Get(e, Key.skip)), Str(<<"i", "n", "s", "e", "c", "u", "r", "e", "=", "1">>))
                    \o Field(e, Key.sni, Str(<<"s", "n", "i", "=">>))
      rest     == AT \o server \o COLON \o prt
  IN  IF ~Truthy(password) THEN Continue
      ELSE IF password.t # "str" THEN Raise("TypeError")
      ELSE Node(Scheme.hysteria2 \o password.v \o rest,
                Scheme.hysteria2 \o quote(password.v) \o rest \o QueryString(params)
                  \o Tag(name), "clash")

ClashTuic(e, server, prt, name) ==
  LET uuid     == Get(e, Key.uuid)
      password == Get(e, Key.password)
      alpn     == Get(e, Key.alpn)
      joined   == CommaJoin(alpn)
      params   == Field(e, Key.version, Str(<<"v", "e", "r", "s", "i", "o", "n", "=">>))
                    \o Field(e, Key.cc, Str(<<"c", "o", "n", "g", "e", "s", "t", "i", "o", "n", "_", "c", "o", "n", "t", "r", "o", "l", "l", "e", "r", "=">>))
                    \o Field(e, Key.udp_relay, Str(<<"u", "d", "p", "_", "r", "e", "l", "a", "y", "_", "m", "o", "d", "e", "=">>))
                    \o Opt(Truthy(Get(e, Key.tls)), Str(<<"t", "l", "s", "=", "t", "r", "u", "e">>))
                    \o Opt(Truthy(Get(e, Key.skip)), Str(<<"i", "n", "s", "e", "c", "u", "r", "e", "=", "1">>))
                    \o Field(e, Key.sni, Str(<<"s", "n", "i", "=">>))
                    \o Opt(Truthy(alpn), Str(<<"a", "l", "p", "n", "=">>) \o joined.v)
      base     == Scheme.tuic \o Format(uuid) \o COLON \o Format(password)
                    \o AT \o server \o COLON \o prt
  IN  IF ~(Truthy(uuid) /\ Truthy(password)) THEN Continue
      ELSE IF Truthy(alpn) /\ ~joined.ok THEN Raise("TypeError")
      ELSE Node(base, base \o QueryString(params) \o Tag(name), "clash")

\* The entry no branch converted: the serialised dict, cut at 100 characters,
\* is its key and str(dict) its URI.
clash_unknown(e) ==
  Node(Str(<<"c", "l", "a", "s", "h", "_", "u", "n", "k", "n", "o", "w", "n", "_">>) \o Slice(JsonDumps(e, TRUE), 0, 100), PyRepr(e), "unknown")

\* The branch of the type, with the server and the port as the f-strings
\* write them and the stripped name.
ClashOfType(proxy_entry, p_type, s, p, name) ==
  CASE IsStr(p_type, Str(<<"s", "s">>)) -> ClashSS(proxy_entry, s, p, name)
    [] IsStr(p_type, Str(<<"v", "m", "e", "s", "s">>)) -> ClashVmess(proxy_entry, s, p, name)
    [] IsStr(p_type, Str(<<"t", "r", "o", "j", "a", "n">>)) -> ClashTrojan(proxy_entry, s, p, name)
    [] IsStr(p_type, Str(<<"v", "l", "e", "s", "s">>)) -> ClashVless(proxy_entry, s, p, name)
    [] IsStr(p_type, Str(<<"h", "y", "s", "t", "e", "r", "i", "a">>)) -> ClashHysteria(proxy_entry, s, p, name)
    [] IsStr(p_type, Str(<<"h", "y", "s", "t", "e", "r", "i", "a", "2">>)) -> ClashHysteria2(proxy_entry, s, p, name)
    [] IsStr(p_type, Str(<<"t", "u", "i", "c">>)) -> ClashTuic(proxy_entry, s, p, name)
    [] OTHER -> Continue

\* The placeholder of the entry no branch converted.
OrUnknown(proxy_entry, r) == IF r.kind = "next" THEN clash_unknown(proxy_entry) ELSE r

parse_clash_proxy_entry(proxy_entry) ==
  IF GetOr(proxy_entry, Key.name, VStr(<< >>)).t # "str" THEN Raise("AttributeError")
  ELSE IF ~Truthy(Get(proxy_entry, Key.server)) \/ ~Truthy(Get(proxy_entry, Key.port))
  THEN NoneResult
  ELSE OrUnknown(proxy_entry,
                 ClashOfType(proxy_entry, Get(proxy_entry, Key.type),
                             Format(Get(proxy_entry, Key.server)),
                             Format(Get(proxy_entry, Key.port)),
                             strip(GetOr(proxy_entry, Key.name, VStr(<< >>)).v)))

(***************************************************************************)
(* yaml.safe_load on the manifests the payloads hold: top-level 'key:' and *)
(* 'key: value' lines, a 'key:' line followed by '- item' lines, values    *)
(* and items written as JSON (a YAML flow value) or as a plain scalar, a   *)
(* 'key: |' line followed by the indented lines of a literal block scalar, *)
(* or a document that is one plain scalar.  ok |-> FALSE stands for        *)
(* yaml.YAMLError.                                                         *)
(***************************************************************************)
IsKeyChar(c) == IsAlpha(c) \/ IsDigit(c) \/ c \in {45, 95}

\* The text of a plain (unquoted) scalar that YAML reads as a str: it starts
\* with a letter, holds no ': ' and no ' #', does not end with ':' and is none
\* of the words YAML resolves to a bool or null.
IsPlainStr(s) ==
  /\ s # << >> /\ IsAlpha(s[1]) /\ s[Len(s)] # 58
  /\ ~Contains(s, Str(<<":", " ">>)) /\ ~Contains(s, Str(<<" ", "#">>))
  /\ lower(s) \notin {Str(<<"t", "r", "u", "e">>), Str(<<"f", "a", "l", "s", "e">>), Str(<<"n", "u", "l", "l">>), Str(<<"y", "e", "s">>), Str(<<"n", "o">>), Str(<<"o", "n">>), Str(<<"o", "f", "f">>),
                      Str(<<"y">>), Str(<<"n">>)}

\* A value or an item: JSON when it starts as one, else a plain str.
YamlScalar(s) ==
  IF s # << >> /\ (s[1] \in {123, 91, 34} \/ (\A i \in 1..Len(s) : IsDigit(s[i]))
                     \/ s \in {Str(<<"t", "r", "u", "e">>), Str(<<"f", "a", "l", "s", "e">>), Str(<<"n", "u", "l", "l">>)})
  THEN json_loads(s)
  ELSE IF IsPlainStr(s) THEN [ok |-> TRUE, val |-> VStr(s)]
  ELSE [ok |-> FALSE, val |-> VNone]

\* 'key:' at column 0: the length of the key, 0 when the line is no key line.
YamlKeyLen(l) ==
  LET n == RunEnd(l, 1, IsKeyChar)
  IN  IF n >= 1 /\ n < Len(l) /\ l[n + 1] = 58 /\ (n + 1 = Len(l) \/ l[n + 2] = 32)
      THEN n ELSE 0

\* '- item', indented or not: the item's text, << >> when the line is none.
YamlItem(l) ==
  LET t == strip(l)
  IN  IF Len(t) > 2 /\ t[1] = 45 /\ t[2] = 32 THEN strip(From(t, 2)) ELSE << >>

IsBlank(c) == c = 32

\* The number of spaces a line starts with.
Indent(l) == RunEnd(l, 1, IsBlank)

\* The text of a literal block scalar: its lines without the indentation of
\* the first of them, a line feed after each.
LiteralText(lines) ==
  Concat([k \in 1..Len(lines) |-> From(lines[k], Indent(lines[1])) \o << LF >>])

safe_load(text) ==
  LET fail == [ok |-> FALSE, val |-> VNone]
      keep(l) == strip(l) # << >> /\ strip(l)[1] # 35
  IN
  Bind(SelectSeq(splitlines(text), keep), LAMBDA L :
  Bind([i \in 1..Len(L) |-> YamlKeyLen(L[i])], LAMBDA keylen :
  Bind([i \in 1..Len(L) |-> keylen[i] > 0 /\ strip(From(L[i], keylen[i] + 1)) = << 124 >>],
       LAMBDA litKey :
  Bind([j \in 1..Len(L) |->
          /\ keylen[j] = 0 /\ Indent(L[j]) > 0
          /\ \E i \in 1..(j - 1) :
                litKey[i] /\ \A k \in (i + 1)..j : keylen[k] = 0 /\ Indent(L[k]) > 0],
       LAMBDA isLit :
  Bind([i \in 1..Len(L) |-> keylen[i] = 0 /\ ~isLit[i] /\ YamlItem(L[i]) # << >>], LAMBDA isItem :
    LET isKey(i) == keylen[i] > 0
        body(j) == isItem[j] \/ isLit[j]
        \* the last of the item lines, or of the lines of the literal, that
        \* follow the key line i
        last(i) ==
          IF \E j \in (i + 1)..Len(L) : ~body(j)
          THEN (CHOOSE j \in (i + 1)..Len(L) :
                  ~body(j) /\ \A k \in (i + 1)..(j - 1) : body(k)) - 1
          ELSE Len(L)
    IN
  Bind(SelectSeq([i \in 1..Len(L) |-> i], isKey), LAMBDA keys :
  Bind([n \in 1..Len(keys) |->
          Bind(keys[n], LAMBDA i :
          Bind(last(i), LAMBDA end :
          Bind(strip(From(L[i], keylen[i] + 1)), LAMBDA inline :
            IF litKey[i]
            THEN IF \A k \in (i + 1)..end : isLit[k] /\ Indent(L[k]) >= Indent(L[i + 1])
                 THEN [ok |-> TRUE, val |-> VStr(LiteralText(SubSeq(L, i + 1, end)))]
                 ELSE fail
            ELSE IF inline # << >>
            THEN IF end > i THEN fail ELSE YamlScalar(inline)
            ELSE IF end = i THEN [ok |-> TRUE, val |-> VNone]
            ELSE Bind([k \in 1..(end - i) |-> YamlScalar(YamlItem(L[i + k]))], LAMBDA items :
                   IF \A k \in 1..Len(items) : items[k].ok
                   THEN [ok |-> TRUE,
                         val |-> VList([k \in 1..Len(items) |-> items[k].val])]
                   ELSE fail))))], LAMBDA values :
    IF L = << >> THEN [ok |-> TRUE, val |-> VNone]
    ELSE IF Len(L) = 1 /\ keylen[1] = 0 /\ IsPlainStr(strip(L[1]))
         THEN [ok |-> TRUE, val |-> VStr(strip(L[1]))]
    ELSE IF keylen[1] > 0 /\ (\A i \in 1..Len(L) : keylen[i] > 0 \/ isItem[i] \/ isLit[i])
              /\ \A n \in 1..Len(keys) : values[n].ok
         THEN [ok |-> TRUE,
               val |-> VDict([n \in 1..Len(keys) |->
                                << SubSeq(L[keys[n]], 1, keylen[keys[n]]), values[n].val >>])]
    ELSE fail)))))))

(***************************************************************************)
(* parse_nodes: the manifest branch, then the line-by-line branch.  The    *)
(* result is the list of (dedup_id, node_uri) pairs, or the exception that *)
(* leaves the function (exc # "").                                         *)
(***************************************************************************)

ManifestKeys ==
  { Str(<<"p", "r", "o", "x", "i", "e", "s", ":">>), Str(<<"p", "r", "o", "x", "y", "-", "p", "r", "o", "v", "i", "d", "e", "r", "s", ":">>), Str(<<"r", "u", "l", "e", "s", ":">>), Str(<<"p", "o", "r", "t", ":">>), Str(<<"m", "i", "x", "e", "d", "-", "p", "o", "r", "t", ":">>),
    Str(<<"a", "l", "l", "o", "w", "-", "l", "a", "n", ":">>) }

IsManifest(content) == \E k \in ManifestKeys : startswith(strip(content), k)

\* The pairs of the results before the first one that raised (all of them
\* when none did), and the exception of that first one.
Collect(results) ==
  LET raises(i) == results[i].kind = "raise"
      stop == IF \E i \in 1..Len(results) : raises(i)
              THEN CHOOSE i \in 1..Len(results) :
                     raises(i) /\ \A j \in 1..(i - 1) : ~raises(j)
              ELSE Len(results) + 1
      isNode(r) == r.kind = "node"
      done == SelectSeq(SubSeq(results, 1, stop - 1), isNode)
  IN  [nodes |-> [i \in 1..Len(done) |-> << done[i].key, done[i].uri >>],
       exc   |-> IF stop <= Len(results) THEN results[stop].exc ELSE ""]

\* One entry of the 'proxies' list: a map, a URI string, or something else
\* (skipped).
ParseEntry(proxy_entry) ==
  IF proxy_entry.t = "dict" THEN parse_clash_proxy_entry(proxy_entry)
  ELSE IF proxy_entry.t = "str" THEN parse_raw_uri_line(proxy_entry.v)
  ELSE NoneResult

\* The line-by-line branch, after the nodes the manifest branch left behind:
\* an exception of a line leaves parse_nodes.
LinesAfter(nodes_info, c) ==
  IF c.exc # "" THEN [nodes |-> << >>, exc |-> c.exc]
  ELSE [nodes |-> nodes_info \o c.nodes, exc |-> ""]

CollectLines(lines) ==
  Collect([i \in 1..Len(lines) |-> parse_raw_uri_line(strip(lines[i]))])

ParseLines(content, nodes_info) == LinesAfter(nodes_info, CollectLines(splitlines(content)))

\* The loop over the 'proxies' list: the nodes it found, and whether an
\* exception ended it (the content is then read line by line).
EntriesOf(c) == [lines |-> c.exc # "", nodes |-> c.nodes]

CollectEntries(proxies) ==
  Collect([i \in 1..Len(proxies) |-> ParseEntry(proxies[i])])

\* What the manifest branch leaves of the loaded document: the nodes, and
\* whether the content is read line by line after it.
ManifestBranch(y) ==
  IF ~y.ok THEN [lines |-> TRUE, nodes |-> << >>]
  ELSE IF y.val.t = "dict" /\ HasKey(y.val, Key.proxies) /\ Get(y.val, Key.proxies).t = "list"
  THEN EntriesOf(CollectEntries(Get(y.val, Key.proxies).v))
  ELSE [lines |-> FALSE, nodes |-> << >>]

AfterManifest(content, m) ==
  IF m.lines THEN ParseLines(content, m.nodes) ELSE [nodes |-> m.nodes, exc |-> ""]

parse_nodes(content) ==
  AfterManifest(content,
                IF IsManifest(content) THEN ManifestBranch(safe_load(content))
                ELSE [lines |-> TRUE, nodes |-> << >>])

(***************************************************************************)
(* deduplicate_nodes: the first URI of every dedup_id, in the order the    *)
(* ids first occur (the insertion order of the dict).                      *)
(***************************************************************************)
\* deduplicate_nodes without its test 'dedup_id not in unique_nodes_map': the
\* last URI of a key takes the place of the first.
RECURSIVE DedupOverwrite(_, _, _)
DedupOverwrite(node_info_list, k, unique_nodes_map) ==
  IF k > Len(node_info_list) THEN unique_nodes_map
  ELSE LET dedup_id == node_info_list[k][1]
           seen == \E m \in 1..Len(unique_nodes_map) : unique_nodes_map[m][1] = dedup_id
       IN  DedupOverwrite(node_info_list, k + 1,
                          IF seen
                          THEN [m \in 1..Len(unique_nodes_map) |->
                                  IF unique_nodes_map[m][1] = dedup_id
                                  THEN node_info_list[k] ELSE unique_nodes_map[m]]
                          ELSE Append(unique_nodes_map, node_info_list[k]))

RECURSIVE DedupLoop(_, _, _)
DedupLoop(node_info_list, k, unique_nodes_map) ==
  IF k > Len(node_info_list) THEN unique_nodes_map
  ELSE LET dedup_id == node_info_list[k][1]
           seen == \E m \in 1..Len(unique_nodes_map) : unique_nodes_map[m][1] = dedup_id
       IN  DedupLoop(node_info_list, k + 1,
                     IF seen THEN unique_nodes_map
                     ELSE Append(unique_nodes_map, node_info_list[k]))

\* deduplicate_nodes with the values of the dict read from the newest to the
\* oldest.
DedupNewestFirst(node_info_list) ==
  LET unique_nodes_map == DedupLoop(node_info_list, 1, << >>)
      n == Len(unique_nodes_map)
  IN  [m \in 1..n |-> unique_nodes_map[n + 1 - m][2]]

deduplicate_nodes(node_info_list) ==
  LET unique_nodes_map == DedupLoop(node_info_list, 1, << >>)
  IN  [m \in 1..Len(unique_nodes_map) |-> unique_nodes_map[m][2]]

(***************************************************************************)
(* The base64 attempt of main: the fetched text, stripped and padded with  *)
(* '==', decoded with the URL-safe alphabet, then read as UTF-8 and, when  *)
(* that fails, as latin-1.  Text that is not ASCII or not base64 is kept   *)
(* as fetched.                                                             *)
(***************************************************************************)
decode_content(raw_content) ==
  LET stripped == strip(raw_content)
      decoded  == urlsafe_b64decode(stripped \o Str(<<"=", "=">>))
      utf8     == decode_utf8(decoded.bytes)
  IN  IF ~IsAscii(stripped) \/ ~decoded.ok THEN [decoded |-> FALSE, text |-> raw_content]
      ELSE IF utf8.ok THEN [decoded |-> TRUE, text |-> utf8.text]
      ELSE [decoded |-> TRUE, text |-> decode_latin1(decoded.bytes)]

(***************************************************************************)
(* The inputs.                                                             *)
(***************************************************************************)
\* The longest list handed to deduplicate_nodes.
MaxLen == 3

\* The most lines, or manifest entries, of one content handed to parse_nodes.
MaxLines == 2

\* The most subscription links of one run.
MaxSubs == 2

SeqsUpTo(S, n) == UNION { [1..k -> S] : k \in 0..n }

DedupIds == { Str(<<"t", "r", "o", "j", "a", "n", ":", "/", "/", "h", ".", "x", ":", "4", "4", "3">>), Str(<<"s", "s", ":", "/", "/", "h", ".", "x", ":", "4", "4", "3">>), None }

NodeUris == { Str(<<"t", "r", "o", "j", "a", "n", ":", "/", "/", "p", "@", "h", ".", "x", ":", "4", "4", "3", "#", "A">>), Str(<<"t", "r", "o", "j", "a", "n", ":", "/", "/", "p", "@", "h", ".", "x", ":", "4", "4", "3", "#", "B">>) }

LineSchemes ==
  { protocol_prefixes[i] : i \in 1..Len(protocol_prefixes) } \cup { Str(<<"w", "i", "r", "e", "g", "u", "a", "r", "d", ":", "/", "/">>) }

VmessJson ==
  Str(<<"{", "\"", "a", "d", "d", "\"", ":", " ", "\"", "h", ".", "x", "\"", ",", " ", "\"", "p", "o", "r", "t", "\"", ":", " ", "4", "4", "3", ",", " ", "\"", "i", "d", "\"", ":", " ", "\"", "u", "-", "1", "\"", ",", " ", "\"", "s", "e", "r", "v", "e", "r", "\"", ":", " ", "\"", "h", ".", "x", "\"", ",", " ", "\"", "p", "s", "\"", ":", " ", "\"", "A", "\"", "}">>)

LineBodies ==
  { Str(<<"u", "-", "1", ":", "p", "w", "@", "h", ".", "x", ":", "4", "4", "3">>),
    Str(<<"h", ".", "x", ":", "4", "4", "3">>),
    Str(<<"u", "-", "1", "@", "h", ".", "x", ":", "4", "4", "3", "?", "s", "e", "c", "u", "r", "i", "t", "y", "=", "t", "l", "s", "&", "t", "y", "p", "e", "=", "w", "s", "&", "p", "s", "k", "=", "k", "&", "a", "u", "t", "h", "=", "a">>),
    Str(<<"u", "-", "1", "@", "h", ".", "x", ":", "4", "4", "3", "?", "s", "e", "c", "u", "r", "i", "t", "y", "=", "n", "o", "n", "e", "&", "t", "y", "p", "e", "=", "t", "c", "p", "&", "p", "s", "k", "=", "k", "&", "a", "u", "t", "h", "=", "a">>),
    Str(<<"u", "-", "1", "@", "h", ".", "x", ":", "x">>),
    rstripEq(b64encode(VmessJson)),
    b64encode(Str(<<"{", "\"", "a", "d", "d", "\"", ":", " ", "\"", "h", ".", "x", "\"", ",", " ", "\"", "p", "o", "r", "t", "\"", ":", " ", "4", "4", "3", "}">>)),
    b64encode(Str(<<"1", "2", "3">>)),
    b64encode(Str(<<"h", ".", "x", ":", "4", "4", "3", ":", "o", "r", "i", "g", "i", "n", ":", "a", "e", "s", ":", "p", "l", "a", "i", "n", ":", "c", "G", "F", "z", "c", "w">>)) }

LineTags == { << >>, Str(<<"#", "A">>), Str(<<"#", "B">>) }

Lines(scheme) == { scheme \o b \o t : b \in LineBodies, t \in LineTags }

\* The texts of 1..MaxLines lines of one scheme, one line each.
LineTexts ==
  UNION { { Join(ls, << LF >>) : ls \in SeqsUpTo(Lines(scheme), MaxLines) \ { << >> } } :
          scheme \in LineSchemes }

\* The manifest entries: a map of one type, with the fields of all types
\* ("full"), with all of them but auth ("noauth"), with none of them ("bare")
\* or without the server ("noserver"), named A or B.
EntryTypes ==
  { Str(<<"s", "s">>), Str(<<"v", "m", "e", "s", "s">>), Str(<<"t", "r", "o", "j", "a", "n">>), Str(<<"v", "l", "e", "s", "s">>), Str(<<"h", "y", "s", "t", "e", "r", "i", "a">>), Str(<<"h", "y", "s", "t", "e", "r", "i", "a", "2">>), Str(<<"t", "u", "i", "c">>),
    Str(<<"w", "i", "r", "e", "g", "u", "a", "r", "d">>) }

Entry(type, name, fields, transport) ==
  VDict(<< << Key.name, VStr(name) >>, << Key.type, VStr(type) >> >>
        \o (IF fields = "noserver" THEN << >>
            ELSE << << Key.server, VStr(Str(<<"h", ".", "x">>)) >> >>)
        \o << << Key.port, VInt(443) >> >>
        \o (IF fields = "bare" THEN << >>
            ELSE << << Key.cipher, VStr(Str(<<"a", "e", "s", "-", "1", "2", "8", "-", "g", "c", "m">>)) >>,
                    << Key.password, VStr(Str(<<"p", "w">>)) >>,
                    << Key.uuid, VStr(Str(<<"u", "-", "1">>)) >> >>
                 \o (IF fields = "noauth" THEN << >>
                     ELSE << << Key.auth, VStr(Str(<<"a">>)) >> >>))
        \o (IF transport = "ws"
            THEN << << Key.network, VStr(Str(<<"w", "s">>)) >>, << Key.tls, VBool(TRUE) >> >>
            ELSE << >>))

\* The items of a 'proxies' list of one type: the maps, written as YAML flow
\* mappings, one URI string of the scheme, and a vmess string whose payload is
\* the JSON number 123.
ManifestItems(type) ==
  { JsonDumps(Entry(type, name, ft[1], ft[2]), FALSE) :
      name \in { Str(<<"A">>), Str(<<"B">>) },
      ft \in { << "full", "tcp" >>, << "full", "ws" >>, << "bare", "tcp" >>,
               << "noserver", "tcp" >> } }
  \cup { type \o Str(<<":", "/", "/", "u", "-", "1", ":", "p", "w", "@", "h", ".", "x", ":", "4", "4", "3", "#", "S">>) }
  \cup { Str(<<"v", "m", "e", "s", "s", ":", "/", "/", "M", "T", "I", "z">>) }

ManifestText(items) ==
  Str(<<"p", "r", "o", "x", "i", "e", "s", ":">>) \o << LF >>
    \o Concat([i \in 1..Len(items) |-> Str(<<" ", " ", "-", " ">>) \o items[i] \o << LF >>])

\* The manifests of 1..MaxLines items of one type, and the texts that open
\* like a manifest and are no YAML document (an unclosed flow sequence).
ManifestTexts ==
  UNION { { ManifestText(items) : items \in SeqsUpTo(ManifestItems(type), MaxLines) \ { << >> } } :
          type \in EntryTypes }

BrokenManifestTexts ==
  { Str(<<"p", "r", "o", "x", "i", "e", "s", ":", " ", "[">>) \o << LF >> \o l \o << LF >> :
      l \in UNION { Lines(scheme) : scheme \in LineSchemes } }

\* The texts that open like a manifest and load without a 'proxies' list: the
\* key carries a literal block of lines, a number, or is not there.
FalseManifestTexts ==
  { key \o Str(<<" ", "|">>) \o << LF >> \o Str(<<" ", " ">>) \o l \o << LF >> :
      key \in { Str(<<"p", "r", "o", "x", "i", "e", "s", ":">>), Str(<<"p", "o", "r", "t", ":">>) },
      l \in { Str(<<"t", "r", "o", "j", "a", "n", ":", "/", "/", "p", "w", "@", "h", ".", "x", ":", "4", "4", "3", "#", "A">>), Str(<<"s", "n", "e", "l", "l", ":", "/", "/", "h", ".", "x", ":", "4", "4", "3", "#", "B">>), Str(<<"v", "m", "e", "s", "s", ":", "/", "/", "M", "T", "I", "z">>) } }
  \cup { Str(<<"p", "r", "o", "x", "i", "e", "s", ":", " ", "7">>) \o << LF >>, Str(<<"p", "o", "r", "t", ":", " ", "7", "8", "9", "0">>) \o << LF >> }

Contents == LineTexts \cup ManifestTexts \cup BrokenManifestTexts \cup FalseManifestTexts

\* The links of subscriptions.txt and what a download of one may return.
Urls == { "https://a.example/sub", "https://b.example/sub" }

PlainList == Str(<<"t", "r", "o", "j", "a", "n", ":", "/", "/", "p", "w", "@", "h", ".", "x", ":", "4", "4", "3", "#", "A">>) \o << LF >> \o Str(<<"s", "n", "e", "l", "l", ":", "/", "/", "h", ".", "x", ":", "4", "4", "3", "#", "B">>) \o << LF >>

Payloads ==
  { PlainList,
    Str(<<"t", "r", "o", "j", "a", "n", ":", "/", "/", "p", "@", "h", ".", "x", ":", "4", "4", "3", "#", "A">>) \o << LF >> \o Str(<<"t", "r", "o", "j", "a", "n", ":", "/", "/", "p", "@", "h", ".", "x", ":", "4", "4", "3", "#", "B">>) \o << LF >>,
    b64encode(PlainList),
    ManifestText(<< JsonDumps(Entry(Str(<<"t", "r", "o", "j", "a", "n">>), Str(<<"A">>), "full", "tcp"), FALSE) >>),
    b64encode(ManifestText(<< JsonDumps(Entry(Str(<<"t", "r", "o", "j", "a", "n">>), Str(<<"A">>), "full", "tcp"), FALSE) >>)),
    Str(<<"<", "h", "t", "m", "l", ">", "n", "o", "t", " ", "f", "o", "u", "n", "d", "<", "/", "h", "t", "m", "l", ">">>),
    Str(<<"v", "l", "e", "s", "s", ":", "/", "/", "u", "-", "1", "@", "h", ".", "x", ":", "x">>),
    << 33410, 28857 >>,
    b64encode(<< 255, 254 >>),
    << 32 >>,
    << >> }

\* fetch_subscription_content(url): the text of the subscription, or None when
\* the download failed.
fetch_subscription_content(url) == Payloads \cup { None }

(***************************************************************************)
(* The state.  pc is the position in the program that runs; raised is the  *)
(* exception that ended it ("" while none did).                            *)
(***************************************************************************)
VARIABLES
  pc, raised,
  \* parse_nodes and deduplicate_nodes, called on their own
  content, node_info_list, unique_nodes,
  \* process_subscriptions.main
  subscription_urls, url_index, raw_content, processed_content,
  nodes_from_this_url, all_fetched_nodes_info, valid_subscriptions,
  failed_subscriptions_count, printed, files,
  \* script.py and update.py: the download loop, the loop of main over the
  \* links, the lines printed for the links and the files written
  attempt, response, position, log, written,
  \* script.main
  subs, valid_subs, nodes, all_nodes,
  \* update.main
  links, valid, invalid, tmp, update_nodes

callVars == << content, node_info_list >>

mainVars ==
  << subscription_urls, url_index, raw_content, processed_content,
     nodes_from_this_url, all_fetched_nodes_info, valid_subscriptions,
     failed_subscriptions_count, printed, files >>

toolVars == << attempt, response, position, log, written >>

scriptVars == << subs, valid_subs, nodes, all_nodes >>

updateVars == << links, valid, invalid, tmp, update_nodes >>

vars == << pc, raised, unique_nodes, callVars, mainVars, toolVars, scriptVars, updateVars >>

NoFiles == [subscriptions |-> None, nodes |-> None]

CallIdle == content = << >> /\ node_info_list = << >>

MainIdle ==
  /\ subscription_urls = << >> /\ url_index = 1
  /\ raw_content = None /\ processed_content = None
  /\ nodes_from_this_url = << >> /\ all_fetched_nodes_info = << >>
  /\ valid_subscriptions = << >> /\ failed_subscriptions_count = 0
  /\ printed = << >> /\ files = NoFiles

ToolIdle ==
  /\ attempt = 0 /\ response = << >> /\ position = 1 /\ log = << >> /\ written = NoFiles

ScriptIdle == subs = << >> /\ valid_subs = << >> /\ nodes = << >> /\ all_nodes = << >>

UpdateIdle ==
  /\ links = << >> /\ valid = << >> /\ invalid = << >> /\ tmp = << >>
  /\ update_nodes = << >>

\* script.py and update.py do not run.
ToolsIdle == ToolIdle /\ ScriptIdle /\ UpdateIdle

(***************************************************************************)
(* deduplicate_nodes and parse_nodes called on an input.                   *)
(***************************************************************************)
InitDedup ==
  /\ pc = "deduplicate_nodes" /\ raised = ""
  /\ content = << >>
  /\ node_info_list \in SeqsUpTo(DedupIds \X NodeUris, MaxLen)
  /\ unique_nodes = << >>
  /\ MainIdle /\ ToolsIdle

InitParse ==
  /\ pc = "parse_nodes" /\ raised = ""
  /\ content \in Contents
  /\ node_info_list = << >>
  /\ unique_nodes = << >>
  /\ MainIdle /\ ToolsIdle

ParseNodes ==
  /\ pc = "parse_nodes"
  /\ LET Returned(r) ==
           /\ node_info_list' = r.nodes
           /\ raised' = r.exc
           /\ pc' = IF r.exc = "" THEN "deduplicate_nodes" ELSE "raised"
     IN  Returned(parse_nodes(content))
  /\ UNCHANGED << content, unique_nodes, mainVars, toolVars, scriptVars, updateVars >>

DeduplicateNodes ==
  /\ pc = "deduplicate_nodes"
  /\ unique_nodes' = deduplicate_nodes(node_info_list)
  /\ pc' = "done"
  /\ UNCHANGED << raised, callVars, mainVars, toolVars, scriptVars, updateVars >>

\* The keys of the list, in the order in which they first occur.
FirstKeys(l) ==
  LET first(i) == \A j \in 1..(i - 1) : l[j][1] # l[i][1]
      idx == SelectSeq([i \in 1..Len(l) |-> i], first)
  IN  [m \in 1..Len(idx) |-> l[idx[m]][1]]

\* deduplicate_nodes called on its own result: every URI it returned, paired
\* again with its key.
DeduplicateAgain ==
  /\ pc = "done"
  /\ LET keys == FirstKeys(node_info_list)
         Again(pairs) ==
           /\ all_fetched_nodes_info' = pairs
           /\ unique_nodes' = deduplicate_nodes(pairs)
     IN  Again([m \in 1..Len(unique_nodes) |-> << keys[m], unique_nodes[m] >>])
  /\ pc' = "done.twice"
  /\ UNCHANGED << raised, callVars, subscription_urls, url_index, raw_content,
                  processed_content, nodes_from_this_url, valid_subscriptions,
                  failed_subscriptions_count, printed, files >>
  /\ UNCHANGED << toolVars, scriptVars, updateVars >>

NextDedup == DeduplicateNodes

NextDedupTwice == DeduplicateNodes \/ DeduplicateAgain

SpecDedupTwice == InitDedup /\ [][NextDedupTwice]_vars

SpecDedup == InitDedup /\ [][NextDedup]_vars

NextParse == ParseNodes \/ DeduplicateNodes

SpecParse == InitParse /\ [][NextParse]_vars

(***************************************************************************)
(* process_subscriptions.main, from the loop over the links to the files.  *)
(* printed holds, for every finished round of the loop, the link, the      *)
(* message of the round ("no nodes" of line 467, "no content" of line 470, *)
(* "" when neither is printed) and the count printed at line 475.          *)
(***************************************************************************)
Init ==
  /\ pc = "loop" /\ raised = ""
  /\ CallIdle
  /\ unique_nodes = << >>
  /\ subscription_urls \in SeqsUpTo(Urls, MaxSubs) \ { << >> }
  /\ url_index = 1
  /\ raw_content = None /\ processed_content = None
  /\ nodes_from_this_url = << >> /\ all_fetched_nodes_info = << >>
  /\ valid_subscriptions = << >> /\ failed_subscriptions_count = 0
  /\ printed = << >> /\ files = NoFiles
  /\ ToolsIdle

\* A round that forgets to count the subscription it found invalid.
ForgetFailed == UNCHANGED failed_subscriptions_count

\* failed_subscriptions_count += 1
CountFailed == failed_subscriptions_count' = failed_subscriptions_count + 1

\* The end of one round of the loop: the count of the subscription is printed
\* and the next link is taken.
EndRound(message, found) ==
  /\ printed' = Append(printed, << subscription_urls[url_index], message, Len(found) >>)
  /\ url_index' = url_index + 1
  /\ pc' = "loop"

Fetch ==
  /\ pc = "loop" /\ url_index <= Len(subscription_urls)
  /\ \E r \in fetch_subscription_content(subscription_urls[url_index]) :
       /\ raw_content' = r
       /\ nodes_from_this_url' = << >>
       /\ processed_content' = None
       /\ IF r = None \/ r = << >>
          THEN /\ CountFailed
               /\ EndRound("", << >>)
          ELSE /\ pc' = "decode"
               /\ UNCHANGED << failed_subscriptions_count, printed, url_index >>
  /\ UNCHANGED << raised, unique_nodes, callVars, subscription_urls,
                  all_fetched_nodes_info, valid_subscriptions, files >>
  /\ UNCHANGED << toolVars, scriptVars, updateVars >>

Decode ==
  /\ pc = "decode"
  /\ processed_content' = decode_content(raw_content).text
  /\ pc' = "parse"
  /\ UNCHANGED << raised, unique_nodes, callVars, subscription_urls, url_index,
                  raw_content, nodes_from_this_url, all_fetched_nodes_info,
                  valid_subscriptions, failed_subscriptions_count, printed, files >>
  /\ UNCHANGED << toolVars, scriptVars, updateVars >>

Parse ==
  /\ pc = "parse"
  /\ LET Parsed(r) ==
           IF r.exc # ""
           THEN /\ raised' = r.exc
                /\ pc' = "raised"
                /\ UNCHANGED << nodes_from_this_url, all_fetched_nodes_info,
                                valid_subscriptions, failed_subscriptions_count,
                                printed, url_index >>
           ELSE /\ nodes_from_this_url' = r.nodes
                /\ IF r.nodes # << >>
                   THEN /\ all_fetched_nodes_info' = all_fetched_nodes_info \o r.nodes
                        /\ valid_subscriptions' =
                             Append(valid_subscriptions, subscription_urls[url_index])
                        /\ UNCHANGED failed_subscriptions_count
                        /\ EndRound("", r.nodes)
                   ELSE /\ CountFailed
                        /\ UNCHANGED << all_fetched_nodes_info, valid_subscriptions >>
                        /\ EndRound("no nodes", r.nodes)
                /\ UNCHANGED raised
     IN  IF processed_content = << >>
         THEN /\ CountFailed
              /\ EndRound("no content", << >>)
              /\ UNCHANGED << raised, nodes_from_this_url, all_fetched_nodes_info,
                              valid_subscriptions >>
         ELSE Parsed(parse_nodes(processed_content))
  /\ UNCHANGED << unique_nodes, callVars, subscription_urls, raw_content,
                  processed_content, files >>
  /\ UNCHANGED << toolVars, scriptVars, updateVars >>

Deduplicate ==
  /\ pc = "loop" /\ url_index > Len(subscription_urls)
  /\ unique_nodes' = deduplicate_nodes(all_fetched_nodes_info)
  /\ pc' = "write"
  /\ UNCHANGED << raised, callVars, mainVars, toolVars, scriptVars, updateVars >>

Write ==
  /\ pc = "write"
  /\ files' = [subscriptions |-> valid_subscriptions, nodes |-> unique_nodes]
  /\ pc' = "done"
  /\ UNCHANGED << raised, unique_nodes, callVars, subscription_urls, url_index,
                  raw_content, processed_content, nodes_from_this_url,
                  all_fetched_nodes_info, valid_subscriptions,
                  failed_subscriptions_count, printed >>
  /\ UNCHANGED << toolVars, scriptVars, updateVars >>

Next == Fetch \/ Decode \/ Parse \/ Deduplicate \/ Write

Spec == Init /\ [][Next]_vars

(***************************************************************************)
(* script.py and update.py.  Both download every link with a loop of       *)
(* MAX_RETRIES attempts, find the links whose content gives something,     *)
(* then download those again and collect their nodes.                      *)
(***************************************************************************)
MAX_RETRIES == 3

\* list(dict.fromkeys(l)): the first occurrence of every element, in order.
fromkeys(l) ==
  LET first(i) == \A j \in 1..(i - 1) : l[j] # l[i]
      idx == SelectSeq([i \in 1..Len(l) |-> i], first)
  IN  [n \in 1..Len(idx) |-> l[idx[n]]]

\* sorted(S) of a set of str.
RECURSIVE sorted(_)
sorted(S) ==
  IF S = {} THEN << >>
  ELSE LET m == CHOOSE x \in S : \A y \in S : y = x \/ LexLess(x, y)
       IN  << m >> \o sorted(S \ {m})

\* [ln.strip() for ln in text.splitlines() if ln.strip()]
StrippedLines(text) ==
  LET full(l) == l # << >>
  IN  SelectSeq([i \in 1..Len(splitlines(text)) |-> strip(splitlines(text)[i])], full)

(***************************************************************************)
(* script.py                                                               *)
(***************************************************************************)
PROTOCOL_PATTERNS ==
  << Scheme.ss, Scheme.ssr, Scheme.vmess, Scheme.vless, Scheme.trojan, Scheme.hysteria,
     Scheme.hysteria2, Scheme.tuic, Str(<<"n", "a", "i", "v", "e", "+", "h", "t", "t", "p", "s", ":", "/", "/">>), Str(<<"w", "i", "r", "e", "g", "u", "a", "r", "d", ":", "/", "/">>) >>

\* decode_base64 without the '=' it appends to a length that is no multiple
\* of 4.
DecodeAsGiven(data) ==
  Bind(urlsafe_b64decode(data), LAMBDA d :
  Bind(decode_utf8(d.bytes), LAMBDA u8 :
    IF IsAscii(data) /\ d.ok /\ u8.ok THEN u8.text ELSE << >>))

\* decode_base64(data): the text of the padded base64 data, '' when it is not
\* ASCII, not base64 or not the base64 of UTF-8.
decode_base64(data) ==
  Bind(data \o [k \in 1..((4 - (Len(data) % 4)) % 4) |-> 61], LAMBDA padded :
  Bind(urlsafe_b64decode(padded), LAMBDA d :
  Bind(decode_utf8(d.bytes), LAMBDA u8 :
    IF IsAscii(padded) /\ d.ok /\ u8.ok THEN u8.text ELSE << >>)))

\* The nodes of a decoded subscription: its stripped lines that start as one
\* of the protocols.
ProtocolLines(decoded) ==
  LET known(n) == \E i \in 1..Len(PROTOCOL_PATTERNS) : startswith(n, PROTOCOL_PATTERNS[i])
  IN  SelectSeq(StrippedLines(decoded), known)

\* get_nodes_from_sub after its download: the nodes of the content, or the
\* exception that leaves the function.
get_nodes_from_sub(fetched) ==
  Bind(decode_utf8(fetched), LAMBDA u8 :
    IF fetched = << >> THEN [exc |-> "", nodes |-> << >>]
    ELSE IF ~u8.ok THEN [exc |-> "UnicodeDecodeError", nodes |-> << >>]
    ELSE [exc |-> "", nodes |-> ProtocolLines(decode_base64(u8.text))])

\* is_valid_sub after its download.
is_valid_sub(fetched) ==
  Bind(decode_utf8(fetched), LAMBDA u8 :
    IF fetched = << >> THEN [exc |-> "", valid |-> FALSE]
    ELSE IF ~u8.ok THEN [exc |-> "UnicodeDecodeError", valid |-> FALSE]
    ELSE [exc |-> "", valid |-> decode_base64(u8.text) # << >>])

\* The links of sub.txt and the bodies a download may return.
Links == { Str(<<"h", "t", "t", "p", ":", "/", "/", "b", "/", "s">>), Str(<<"h", "t", "t", "p", ":", "/", "/", "a", "/", "s">>) }

MixedList ==
  Str(<<" ", " ", "v", "l", "e", "s", "s", ":", "/", "/", "u", "-", "1", "@", "h", ".", "x", ":", "4", "4", "3", "#", "A", " ", " ">>) \o << LF, LF >> \o Str(<<"w", "i", "r", "e", "g", "u", "a", "r", "d", ":", "/", "/", "k">>) \o << LF >>
    \o Str(<<"h", "t", "t", "p", ":", "/", "/", "h", ".", "x">>) \o << LF >>

ScriptBodies ==
  { b64encode(PlainList), rstripEq(b64encode(PlainList)), b64encode(MixedList), PlainList,
    << 255, 254 >>, b64encode(<< 255, 254 >>), << >>,
    b64encode(Str(<<"h", "t", "t", "p", ":", "/", "/", "h", ".", "x">>) \o << LF >>) }

InitScript ==
  /\ pc = "main" /\ raised = ""
  /\ CallIdle /\ unique_nodes = << >> /\ MainIdle
  /\ ToolIdle /\ UpdateIdle
  /\ subs \in SeqsUpTo(Links, MaxSubs) \ { << >> }
  /\ valid_subs = << >> /\ nodes = << >> /\ all_nodes = << >>

\* subs = list(dict.fromkeys(subs)), and the first call of is_valid_sub.
DedupeSubs ==
  /\ pc = "main"
  /\ subs' = fromkeys(subs)
  /\ pc' = "is_valid_sub.fetch"
  /\ UNCHANGED << raised, unique_nodes, callVars, mainVars, toolVars, valid_subs, nodes,
                  all_nodes, updateVars >>

Fetching == pc \in { "is_valid_sub.fetch", "get_nodes_from_sub.fetch" }

\* The caller of fetch gets its result.
FetchReturn(body) ==
  /\ response' = body
  /\ attempt' = 0
  /\ pc' = IF pc = "is_valid_sub.fetch" THEN "is_valid_sub" ELSE "get_nodes_from_sub"
  /\ UNCHANGED << raised, unique_nodes, callVars, mainVars, position, log, written,
                  scriptVars, updateVars >>

\* One round of the loop of fetch: urlopen and read give the body.
FetchReads ==
  /\ Fetching /\ attempt < MAX_RETRIES
  /\ \E body \in ScriptBodies : FetchReturn(body)

\* The loop of fetch with one round more: 'range(MAX_RETRIES + 1)'.
FetchRetriesOnceMore ==
  /\ Fetching /\ attempt <= MAX_RETRIES
  /\ attempt' = attempt + 1
  /\ UNCHANGED << pc, raised, unique_nodes, callVars, mainVars, response, position, log,
                  written, scriptVars, updateVars >>

\* One round of the loop of fetch: urlopen or read raises, and the loop goes on
\* after the warning and the sleep.
FetchRetries ==
  /\ Fetching /\ attempt < MAX_RETRIES
  /\ attempt' = attempt + 1
  /\ UNCHANGED << pc, raised, unique_nodes, callVars, mainVars, response, position, log,
                  written, scriptVars, updateVars >>

\* The loop of fetch is over: return b''.
FetchGivesUp ==
  /\ Fetching /\ attempt = MAX_RETRIES
  /\ FetchReturn(<< >>)

\* One element of the comprehension of valid_subs; after the last one the
\* count is printed.
IsValidSub ==
  /\ pc = "is_valid_sub"
  /\ LET Returned(r) ==
           IF r.exc # ""
           THEN /\ raised' = r.exc /\ pc' = "raised"
                /\ UNCHANGED << valid_subs, position >>
           ELSE /\ valid_subs' = IF r.valid THEN Append(valid_subs, subs[position])
                                 ELSE valid_subs
                /\ position' = IF position < Len(subs) THEN position + 1 ELSE 1
                /\ pc' = IF position < Len(subs) THEN "is_valid_sub.fetch" ELSE "save_subs"
                /\ UNCHANGED raised
     IN  Returned(is_valid_sub(response))
  /\ UNCHANGED << unique_nodes, callVars, mainVars, attempt, response, log, written, subs,
                  nodes, all_nodes, updateVars >>

\* save_subs(valid_subs), and the first call of get_nodes_from_sub.
SaveSubs ==
  /\ pc = "save_subs"
  /\ written' = [written EXCEPT !.subscriptions =
                   sorted({ valid_subs[i] : i \in 1..Len(valid_subs) })]
  /\ pc' = IF valid_subs = << >> THEN "save_nodes" ELSE "get_nodes_from_sub.fetch"
  /\ UNCHANGED << raised, unique_nodes, callVars, mainVars, attempt, response, position,
                  log, scriptVars, updateVars >>

\* One round of the loop over valid_subs.
GetNodesFromSub ==
  /\ pc = "get_nodes_from_sub"
  /\ LET Returned(r) ==
           IF r.exc # ""
           THEN /\ raised' = r.exc /\ pc' = "raised"
                /\ UNCHANGED << nodes, all_nodes, log, position >>
           ELSE /\ nodes' = r.nodes
                /\ all_nodes' = all_nodes \o r.nodes
                /\ log' = Append(log, << valid_subs[position], Len(r.nodes) >>)
                /\ position' = position + 1
                /\ pc' = IF position < Len(valid_subs) THEN "get_nodes_from_sub.fetch"
                         ELSE "save_nodes"
                /\ UNCHANGED raised
     IN  Returned(get_nodes_from_sub(response))
  /\ UNCHANGED << unique_nodes, callVars, mainVars, attempt, response, written, subs,
                  valid_subs, updateVars >>

\* all_nodes = list(dict.fromkeys(all_nodes)) and save_nodes(all_nodes).
SaveNodes ==
  /\ pc = "save_nodes"
  /\ all_nodes' = fromkeys(all_nodes)
  /\ written' = [written EXCEPT !.nodes = sorted({ all_nodes[i] : i \in 1..Len(all_nodes) })]
  /\ pc' = "done"
  /\ UNCHANGED << raised, unique_nodes, callVars, mainVars, attempt, response, position,
                  log, subs, valid_subs, nodes, updateVars >>

NextScript ==
  \/ DedupeSubs \/ FetchReads \/ FetchRetries \/ FetchGivesUp
  \/ IsValidSub \/ SaveSubs \/ GetNodesFromSub \/ SaveNodes

SpecScript == InitScript /\ [][NextScript]_vars

(***************************************************************************)
(* update.py.  _clash_to_uri gives the URI of a map of a manifest, '' for  *)
(* a map it does not convert; ok |-> FALSE stands for an exception         *)
(* (AttributeError, TypeError).                                            *)
(***************************************************************************)
Uri(text) == [ok |-> TRUE, uri |-> text]

Thrown == [ok |-> FALSE, uri |-> << >>]

\* x.get(k, default) at the end of a chain of get: AttributeError when the
\* value before it is no dict.
TryGet(x, k, default) ==
  IF x.ok /\ x.val.t = "dict" THEN [ok |-> TRUE, val |-> GetOr(x.val, k, default)]
  ELSE [ok |-> FALSE, val |-> VNone]

Got(v) == [ok |-> TRUE, val |-> v]

\* proxy.get('ws-opts', {}).get('headers', {}).get('Host', '')
WsOptsHost(proxy) ==
  TryGet(TryGet(TryGet(Got(proxy), Key.ws_opts, VDict(<< >>)), Key.headers, VDict(<< >>)),
         Key.Host, VStr(<< >>))

\* proxy.get('ws-opts', {}).get('path', '')
WsOptsPath(proxy) ==
  TryGet(TryGet(Got(proxy), Key.ws_opts, VDict(<< >>)), Key.path, VStr(<< >>))

\* a or b, b evaluated when a is falsy.
OrElse(a, b) == IF ~a.ok THEN a ELSE IF Truthy(a.val) THEN a ELSE b

UriSS(proxy, server, prt, name) ==
  LET cipher   == GetOr(proxy, Key.cipher, VStr(<< >>))
      password == GetOr(proxy, Key.password, VStr(<< >>))
      auth     == urlsafe_b64encode(encode_utf8(Format(cipher) \o COLON \o Format(password)))
  IN  IF ~Truthy(cipher) \/ ~Truthy(password) THEN Uri(<< >>)
      ELSE Uri(Scheme.ss \o auth \o AT \o server \o COLON \o prt \o Str(<<"#">>) \o name)

UriVmess(proxy, server, prt, name) ==
  LET host  == OrElse(TryGet(TryGet(Got(proxy), Key.ws_headers, VDict(<< >>)),
                             Key.Host, VStr(<< >>)),
                      WsOptsHost(proxy))
      path  == OrElse(Got(GetOr(proxy, Key.ws_path, VStr(<< >>))), WsOptsPath(proxy))
      id    == GetOr(proxy, Key.uuid, VStr(<< >>))
      vmess == VDict(<<
                 << Str(<<"v">>), VStr(Str(<<"2">>)) >>,
                 << Str(<<"p", "s">>), VStr(name) >>,
                 << Str(<<"a", "d", "d">>), Get(proxy, Key.server) >>,
                 << Str(<<"p", "o", "r", "t">>), VStr(prt) >>,
                 << Str(<<"i", "d">>), id >>,
                 << Str(<<"a", "i", "d">>), VStr(Format(GetOr(proxy, Key.alterId,
                                                GetOr(proxy, Key.aid, VInt(0))))) >>,
                 << Str(<<"n", "e", "t">>), GetOr(proxy, Key.network, VStr(Str(<<"t", "c", "p">>))) >>,
                 << Str(<<"t", "y", "p", "e">>), GetOr(proxy, Key.type, VStr(Str(<<"n", "o", "n", "e">>))) >>,
                 << Str(<<"h", "o", "s", "t">>), host.val >>,
                 << Str(<<"p", "a", "t", "h">>), path.val >>,
                 << Str(<<"t", "l", "s">>), VStr(IF Truthy(GetOr(proxy, Key.tls, VBool(FALSE)))
                                     \/ Truthy(Get(proxy, Key.sni))
                                  THEN Str(<<"t", "l", "s">>) ELSE << >>) >> >>)
  IN  IF ~host.ok \/ ~path.ok THEN Thrown
      ELSE IF ~Truthy(id) THEN Uri(<< >>)
      ELSE Uri(Scheme.vmess \o urlsafe_b64encode(encode_utf8(PyRepr(vmess))))

UriTrojan(proxy, server, prt, name) ==
  LET password == GetOr(proxy, Key.password, VStr(<< >>))
      sni      == GetOr(proxy, Key.sni, VStr(<< >>))
  IN  IF ~Truthy(password) THEN Uri(<< >>)
      ELSE Uri(Scheme.trojan \o Format(password) \o AT \o server \o COLON \o prt
                 \o Str(<<"?", "s", "n", "i", "=">>) \o Format(sni) \o Str(<<"#">>) \o name)

UriVless(proxy, server, prt, name) ==
  LET uuid == GetOr(proxy, Key.uuid, VStr(<< >>))
      net  == GetOr(proxy, Key.network, VStr(Str(<<"t", "c", "p">>)))
      tls  == IF Truthy(GetOr(proxy, Key.tls, VBool(FALSE))) THEN Str(<<"t", "l", "s">>) ELSE << >>
      host == WsOptsHost(proxy)
      path == WsOptsPath(proxy)
  IN  IF ~Truthy(uuid) THEN Uri(<< >>)
      ELSE IF ~host.ok \/ ~path.ok THEN Thrown
      ELSE Uri(Scheme.vless \o Format(uuid) \o AT \o server \o COLON \o prt
                 \o Str(<<"?", "t", "y", "p", "e", "=">>) \o Format(net) \o Str(<<"&", "s", "e", "c", "u", "r", "i", "t", "y", "=">>) \o tls
                 \o Str(<<"&", "h", "o", "s", "t", "=">>) \o Format(host.val) \o Str(<<"&", "p", "a", "t", "h", "=">>) \o Format(path.val)
                 \o Str(<<"#">>) \o name)

UriHysteria(proxy, t, server, prt, name) ==
  LET auth == GetOr(proxy, Key.auth, GetOr(proxy, Key.password, VStr(<< >>)))
      alpn == CommaJoin(GetOr(proxy, Key.alpn, VList(<< >>)))
  IN  IF ~Truthy(auth) THEN Uri(<< >>)
      ELSE IF ~alpn.ok THEN Thrown
      ELSE Uri(t \o Str(<<":", "/", "/">>) \o Format(auth) \o AT \o server \o COLON \o prt
                 \o Str(<<"?", "a", "l", "p", "n", "=">>) \o alpn.v \o Str(<<"#">>) \o name)

UriTuic(proxy, server, prt, name) ==
  LET uuid     == GetOr(proxy, Key.uuid, VStr(<< >>))
      password == GetOr(proxy, Key.password, VStr(<< >>))
  IN  IF ~Truthy(uuid) \/ ~Truthy(password) THEN Uri(<< >>)
      ELSE Uri(Scheme.tuic \o Format(uuid) \o COLON \o Format(password) \o AT \o server
                 \o COLON \o prt \o Str(<<"#">>) \o name)

\* The branch of the lower-cased type, with the server, the port and the
\* quoted name as the f-strings write them.
UriOfType(proxy, t, s, p, name) ==
  CASE t = Str(<<"s", "s">>) -> UriSS(proxy, s, p, name)
    [] t = Str(<<"v", "m", "e", "s", "s">>) -> UriVmess(proxy, s, p, name)
    [] t = Str(<<"t", "r", "o", "j", "a", "n">>) -> UriTrojan(proxy, s, p, name)
    [] t = Str(<<"v", "l", "e", "s", "s">>) -> UriVless(proxy, s, p, name)
    [] t \in { Str(<<"h", "y", "s", "t", "e", "r", "i", "a">>), Str(<<"h", "y", "s", "t", "e", "r", "i", "a", "2">>) } -> UriHysteria(proxy, t, s, p, name)
    [] t = Str(<<"t", "u", "i", "c">>) -> UriTuic(proxy, s, p, name)
    [] OTHER -> Uri(<< >>)

\* _clash_to_uri of a value of the list: a value without get, a type without
\* lower and a name that quote does not take raise.
clash_to_uri(proxy) ==
  IF proxy.t # "dict" THEN Thrown
  ELSE IF GetOr(proxy, Key.type, VStr(<< >>)).t # "str" THEN Thrown
  ELSE IF GetOr(proxy, Key.name, VStr(<< >>)).t # "str" THEN Thrown
  ELSE IF ~Truthy(GetOr(proxy, Key.server, VStr(<< >>)))
            \/ ~Truthy(GetOr(proxy, Key.port, VInt(0))) THEN Uri(<< >>)
  ELSE UriOfType(proxy, lower(GetOr(proxy, Key.type, VStr(<< >>)).v),
                 Format(Get(proxy, Key.server)), Format(Get(proxy, Key.port)),
                 quote(GetOr(proxy, Key.name, VStr(<< >>)).v))

\* The values a for loop over x takes; ok |-> FALSE is the TypeError of a
\* value that is not iterable.
Iterate(x) ==
  CASE x.t = "list" -> [ok |-> TRUE, v |-> x.v]
    [] x.t = "dict" ->
         [ok |-> TRUE, v |-> [i \in 1..Len(DictItems(x.v)) |-> VStr(DictItems(x.v)[i][1])]]
    [] x.t = "str"  -> [ok |-> TRUE, v |-> [i \in 1..Len(x.v) |-> VStr(<< x.v[i] >>)]]
    [] OTHER -> [ok |-> FALSE, v |-> << >>]

\* [v for v in providers.values() for p in v.get('proxies', [])]: every
\* provider, once for each of its proxies.
ProviderProxies(providers) ==
  IF providers.t # "dict" THEN [ok |-> FALSE, v |-> << >>]
  ELSE LET it == DictItems(providers.v)
           inner(i) == IF it[i][2].t = "dict"
                       THEN Iterate(GetOr(it[i][2], Key.proxies, VList(<< >>)))
                       ELSE [ok |-> FALSE, v |-> << >>]
       IN  IF \E i \in 1..Len(it) : ~inner(i).ok THEN [ok |-> FALSE, v |-> << >>]
           ELSE [ok |-> TRUE,
                 v |-> Concat([i \in 1..Len(it) |-> [k \in 1..Len(inner(i).v) |-> it[i][2]]])]

\* What matches as the letter k under re.IGNORECASE: the letter in either
\* case, and for i, s and k the dotted and dotless I, the long s and the
\* Kelvin sign.
ReFold(c) ==
  IF c \in 65..90 THEN c + 32
  ELSE IF c \in { 304, 305 } THEN 105
  ELSE IF c = 383 THEN 115
  ELSE IF c = 8490 THEN 107
  ELSE c

\* re.search(rf'^{key}\s*:', text, flags=re.MULTILINE | re.IGNORECASE)
KeyLine(text, key) ==
  \E i \in 1..Len(text) :
    /\ i = 1 \/ text[i - 1] = LF
    /\ i + Len(key) - 1 <= Len(text)
    /\ \A k \in 1..Len(key) : ReFold(text[i + k - 1]) = ReFold(key[k])
    /\ RunEnd(text, i + Len(key), IsSpace) < Len(text)
    /\ text[RunEnd(text, i + Len(key), IsSpace) + 1] = 58

ClashKeys == << Key.proxies, Key.Proxy, Key.proxy_providers >>

\* The URIs of the values of the list, [] when one of them raises.
UrisOf(proxies) ==
  IF ~proxies.ok THEN << >>
  ELSE IF \E i \in 1..Len(proxies.v) : ~clash_to_uri(proxies.v[i]).ok THEN << >>
  ELSE LET converted(x) == clash_to_uri(x).uri # << >>
           kept == SelectSeq(proxies.v, converted)
       IN  [i \in 1..Len(kept) |-> clash_to_uri(kept[i]).uri]

\* The body of the try of the YAML branch, after safe_load: an exception of
\* safe_load, of a get or of _clash_to_uri gives [].
UrisOfManifest(y, key) ==
  IF ~y.ok \/ y.val.t # "dict" THEN << >>
  ELSE UrisOf(IF key # Key.proxy_providers THEN Iterate(GetOr(y.val, key, VList(<< >>)))
              ELSE ProviderProxies(GetOr(y.val, key, VDict(<< >>))))

ClashUris(text, key) == UrisOfManifest(safe_load(text), key)

\* _try_base64(data): the text of the padded base64 data, '' when it is not
\* base64 or not the base64 of UTF-8.
try_base64(data) ==
  Bind(urlsafe_b64decode(encode_utf8(
         data \o [k \in 1..((4 - (Len(data) % 4)) % 4) |-> 61])), LAMBDA d :
  Bind(decode_utf8(d.bytes), LAMBDA u8 :
    IF d.ok /\ u8.ok THEN u8.text ELSE << >>))

\* raw.decode('utf-8'), and raw.decode('latin-1') when that raises.
DecodeText(raw) ==
  Bind(decode_utf8(raw), LAMBDA u8 : IF u8.ok THEN u8.text ELSE decode_latin1(raw))

\* The stripped lines of the decoded text, of the text itself when
\* _try_base64 gave ''.
LinesOf(decoded, text) ==
  IF decoded # << >> THEN StrippedLines(decoded) ELSE StrippedLines(text)

\* The three steps on the text: the YAML branch of the first key that is
\* found, else the base64 text, else the lines.
NodesOfText(text) ==
  IF \E i \in 1..Len(ClashKeys) : KeyLine(text, ClashKeys[i])
  THEN ClashUris(text, ClashKeys[CHOOSE i \in 1..Len(ClashKeys) :
                                   /\ KeyLine(text, ClashKeys[i])
                                   /\ \A j \in 1..(i - 1) : ~KeyLine(text, ClashKeys[j])])
  ELSE LinesOf(try_base64(text), text)

extract_nodes(raw) == IF raw = << >> THEN << >> ELSE NodesOfText(DecodeText(raw))

TrojanEntry == JsonDumps(Entry(Str(<<"t", "r", "o", "j", "a", "n">>), Str(<<"A">>), "full", "tcp"), FALSE)

UpdateBodies ==
  { ManifestText(<< TrojanEntry >>),
    ManifestText(<< JsonDumps(Entry(Str(<<"s", "s">>), Str(<<"A">>), "bare", "tcp"), FALSE) >>),
    ManifestText(<< TrojanEntry, Str(<<"t", "r", "o", "j", "a", "n", ":", "/", "/", "p", "w", "@", "h", ".", "x", ":", "4", "4", "3", "#", "S">>) >>),
    Str(<<"p", "r", "o", "x", "i", "e", "s", ":", " ", "[">>) \o << LF >> \o Str(<<"t", "r", "o", "j", "a", "n", ":", "/", "/", "p", "w", "@", "h", ".", "x", ":", "4", "4", "3", "#", "A">>) \o << LF >>,
    Str(<<"P", "r", "o", "x", "y", ":">>) \o << LF >> \o Str(<<" ", " ", "-", " ">>) \o JsonDumps(Entry(Str(<<"V", "L", "E", "S", "S">>), Str(<<"B">>), "full", "ws"), FALSE)
      \o << LF >>,
    Str(<<"p", "r", "o", "x", "y", "-", "p", "r", "o", "v", "i", "d", "e", "r", "s", ":", " ", "{", "\"", "p", "\"", ":", " ", "\"", "x", "\"", "}">>) \o << LF >>,
    PlainList, b64encode(PlainList), << 255, 254 >>, << >> }

NoUpdateFiles == [valid |-> None, invalid |-> None, nodes |-> None]

InitUpdate ==
  /\ pc = "is_valid.download" /\ raised = ""
  /\ CallIdle /\ unique_nodes = << >> /\ MainIdle
  /\ attempt = 0 /\ response = << >> /\ position = 1 /\ log = << >>
  /\ written = NoUpdateFiles
  /\ ScriptIdle
  /\ links \in SeqsUpTo(Links, MaxSubs) \ { << >> }
  /\ valid = << >> /\ invalid = << >> /\ tmp = << >> /\ update_nodes = << >>

Downloading == pc \in { "is_valid.download", "main.download" }

\* The caller of the download gets its result.
DownloadReturn(body) ==
  /\ response' = body
  /\ attempt' = 0
  /\ pc' = IF pc = "is_valid.download" THEN "is_valid" ELSE "main.extract"
  /\ UNCHANGED << raised, unique_nodes, callVars, mainVars, position, log, written,
                  scriptVars, updateVars >>

\* One round of the loop of the download: the request gives a body.
DownloadReads ==
  /\ Downloading /\ attempt < MAX_RETRIES
  /\ \E body \in UpdateBodies : DownloadReturn(body)

\* One round of the loop of the download: the request raises, and the loop
\* goes on after the warning and the sleep.
DownloadRetries ==
  /\ Downloading /\ attempt < MAX_RETRIES
  /\ attempt' = attempt + 1
  /\ UNCHANGED << pc, raised, unique_nodes, callVars, mainVars, response, position, log,
                  written, scriptVars, updateVars >>

\* The loop of the download is over: return b''.
DownloadGivesUp ==
  /\ Downloading /\ attempt = MAX_RETRIES
  /\ DownloadReturn(<< >>)

\* One round of the first loop of main: the link goes to valid when its
\* content gives a node, to invalid otherwise.
SubscriptionIsValid ==
  /\ pc = "is_valid"
  /\ LET Returned(found) ==
           /\ valid' = IF Len(found) > 0 THEN Append(valid, links[position]) ELSE valid
           /\ invalid' = IF Len(found) > 0 THEN invalid ELSE Append(invalid, links[position])
     IN  Returned(extract_nodes(response))
  /\ position' = IF position < Len(links) THEN position + 1 ELSE 1
  /\ pc' = IF position < Len(links) THEN "is_valid.download" ELSE "write_groups"
  /\ UNCHANGED << raised, unique_nodes, callVars, mainVars, attempt, response, log, written,
                  scriptVars, links, tmp, update_nodes >>

\* The two group files, and the first download of the second loop.
WriteGroups ==
  /\ pc = "write_groups"
  /\ written' = [written EXCEPT !.valid = valid, !.invalid = invalid]
  /\ pc' = IF valid = << >> THEN "save" ELSE "main.download"
  /\ UNCHANGED << raised, unique_nodes, callVars, mainVars, attempt, response, position,
                  log, scriptVars, updateVars >>

\* One round of the second loop of main.
ExtractNodes ==
  /\ pc = "main.extract"
  /\ LET Returned(found) ==
           /\ tmp' = found
           /\ update_nodes' = update_nodes \o found
           /\ log' = Append(log, << valid[position], Len(found) >>)
     IN  Returned(extract_nodes(response))
  /\ position' = position + 1
  /\ pc' = IF position < Len(valid) THEN "main.download" ELSE "save"
  /\ UNCHANGED << raised, unique_nodes, callVars, mainVars, attempt, response, written,
                  scriptVars, links, valid, invalid >>

\* The nodes without their repetitions, written to config.txt.
SaveUpdate ==
  /\ pc = "save"
  /\ update_nodes' = fromkeys(update_nodes)
  /\ written' = [written EXCEPT !.nodes = fromkeys(update_nodes)]
  /\ pc' = "done"
  /\ UNCHANGED << raised, unique_nodes, callVars, mainVars, attempt, response, position,
                  log, scriptVars, links, valid, invalid, tmp >>

NextUpdate ==
  \/ DownloadReads \/ DownloadRetries \/ DownloadGivesUp
  \/ SubscriptionIsValid \/ WriteGroups \/ ExtractNodes \/ SaveUpdate

SpecUpdate == InitUpdate /\ [][NextUpdate]_vars

(***************************************************************************)
(* parse_nodes called on a manifest of one map, and _parse_raw_uri_line    *)
(* called on every URI it returned: all_fetched_nodes_info holds the pairs *)
(* of the second call, (None, uri) for a URI that gives no node.           *)
(***************************************************************************)
MapTexts ==
  { ManifestText(<< JsonDumps(Entry(type, name, ft[1], ft[2]), FALSE) >>) :
      type \in EntryTypes, name \in { << >>, Str(<<"A">>) },
      ft \in { << "full", "tcp" >>, << "full", "ws" >>, << "noauth", "tcp" >>,
               << "noauth", "ws" >>, << "bare", "tcp" >> } }

InitRoundTrip ==
  /\ pc = "parse_nodes" /\ raised = ""
  /\ content \in MapTexts
  /\ node_info_list = << >>
  /\ unique_nodes = << >>
  /\ MainIdle /\ ToolsIdle

ParseEmitted ==
  /\ pc = "deduplicate_nodes"
  /\ LET Returned(c) ==
           /\ all_fetched_nodes_info' =
                [k \in 1..Len(c) |->
                   << IF c[k].kind = "node" THEN c[k].key ELSE None, node_info_list[k][2] >>]
           /\ raised' = IF \E k \in 1..Len(c) : c[k].kind = "raise" THEN "Exception" ELSE ""
           /\ pc' = IF \E k \in 1..Len(c) : c[k].kind = "raise" THEN "raised"
                    ELSE "_parse_raw_uri_line.return"
     IN  Returned([k \in 1..Len(node_info_list) |-> parse_raw_uri_line(node_info_list[k][2])])
  /\ UNCHANGED << unique_nodes, callVars, subscription_urls, url_index, raw_content,
                  processed_content, nodes_from_this_url, valid_subscriptions,
                  failed_subscriptions_count, printed, files >>
  /\ UNCHANGED << toolVars, scriptVars, updateVars >>

NextRoundTrip == ParseNodes \/ ParseEmitted

SpecRoundTrip == InitRoundTrip /\ [][NextRoundTrip]_vars

(***************************************************************************)
(* script.py or update.py with their download loops under fairness: an     *)
(* attempt of a download ends, by a body or by an exception (the request   *)
(* has a timeout, the sleep after a failure is two seconds), and the loop  *)
(* takes its next step.                                                    *)
(***************************************************************************)
InitDownload == InitScript \/ InitUpdate

NextDownload == NextScript \/ NextUpdate

\* The steps of the two download loops.
LoopAction ==
  \/ FetchReads \/ FetchRetries \/ FetchGivesUp
  \/ DownloadReads \/ DownloadRetries \/ DownloadGivesUp

SpecDownload == InitDownload /\ [][NextDownload]_vars /\ WF_vars(LoopAction)

(***************************************************************************)
(* The base64 steps called on the encoding of a text: decode_base64 of     *)
(* script.py, _try_base64 of update.py and the base64 attempt of           *)
(* process_subscriptions.main.  content is the text, raw_content its       *)
(* base64 with all, some or none of its '=' and processed_content the      *)
(* text the step returns.                                                  *)
(***************************************************************************)
\* The longest text that is encoded.
MaxText == 3

\* The characters of the texts: letters whose base64 differs in the two
\* alphabets ('~~~' is 'fn5-' or 'fn5+', '???' is 'Pz8_' or 'Pz8/'), a line
\* feed and a letter of two bytes in UTF-8.
TextChars == { 97, 126, 63, LF, 233 }

Texts == SeqsUpTo(TextChars, MaxText)

\* The number of '=' the encoding ends with.
Pads(e) ==
  IF Len(e) >= 2 /\ e[Len(e) - 1] = 61 THEN 2
  ELSE IF Len(e) >= 1 /\ e[Len(e)] = 61 THEN 1 ELSE 0

\* The encoding with none, some or all of its '=' taken away.
Unpadded(e) == { SubSeq(e, 1, Len(e) - k) : k \in 0..Pads(e) }

Encodings(text) ==
  Unpadded(b64encode(encode_utf8(text))) \cup Unpadded(urlsafe_b64encode(encode_utf8(text)))

\* main makes its attempt on a text that is not empty ('if raw_content').
InitBase64 ==
  /\ raised = "" /\ unique_nodes = << >> /\ node_info_list = << >>
  /\ content \in Texts
  /\ raw_content \in Encodings(content)
  /\ pc \in { "decode_base64", "_try_base64" }
             \cup (IF raw_content # << >> THEN { "decode" } ELSE { })
  /\ subscription_urls = << >> /\ url_index = 1 /\ processed_content = None
  /\ nodes_from_this_url = << >> /\ all_fetched_nodes_info = << >>
  /\ valid_subscriptions = << >> /\ failed_subscriptions_count = 0
  /\ printed = << >> /\ files = NoFiles
  /\ ToolsIdle

DecodeBase64 ==
  /\ pc = "decode_base64"
  /\ processed_content' = decode_base64(raw_content)
  /\ pc' = "decode_base64.return"
  /\ UNCHANGED << raised, unique_nodes, callVars, subscription_urls, url_index,
                  raw_content, nodes_from_this_url, all_fetched_nodes_info,
                  valid_subscriptions, failed_subscriptions_count, printed, files >>
  /\ UNCHANGED << toolVars, scriptVars, updateVars >>

TryBase64 ==
  /\ pc = "_try_base64"
  /\ processed_content' = try_base64(raw_content)
  /\ pc' = "_try_base64.return"
  /\ UNCHANGED << raised, unique_nodes, callVars, subscription_urls, url_index,
                  raw_content, nodes_from_this_url, all_fetched_nodes_info,
                  valid_subscriptions, failed_subscriptions_count, printed, files >>
  /\ UNCHANGED << toolVars, scriptVars, updateVars >>

NextBase64 == DecodeBase64 \/ TryBase64 \/ Decode

SpecBase64 == InitBase64 /\ [][NextBase64]_vars

(***************************************************************************)
(* The properties of deduplicate_nodes, parse_nodes and main.              *)
(***************************************************************************)
\* The elements of a sequence at the places of a set, in order.
AtPlaces(l, P) ==
  LET at(i) == i \in P
      idx == SelectSeq([i \in 1..Len(l) |-> i], at)
  IN  [m \in 1..Len(idx) |-> l[idx[m]]]

\* The places of a list of pairs whose key occurs at no earlier place.
FirstPlaces(l) == { i \in 1..Len(l) : \A j \in 1..(i - 1) : l[j][1] # l[i][1] }

\* C1: deduplicate_nodes returns one URI for every distinct key of its input,
\* the URI of the first pair that carries the key, in the order in which the
\* keys first occur; no key is lost and none gives two URIs.
C1_FirstOccurrenceWins ==
  pc = "done" =>
    LET first == AtPlaces(node_info_list, FirstPlaces(node_info_list))
    IN  /\ unique_nodes = [m \in 1..Len(first) |-> first[m][2]]
        /\ Len(unique_nodes)
             = Cardinality({ node_info_list[i][1] : i \in 1..Len(node_info_list) })

\* A key that comes back after another key, with another URI.
C1_Witness ==
  /\ pc = "done" /\ Len(node_info_list) = 3
  /\ node_info_list[1][1] = node_info_list[3][1]
  /\ node_info_list[1][2] # node_info_list[3][2]
  /\ node_info_list[2][1] # node_info_list[1][1]
  /\ unique_nodes = << node_info_list[1][2], node_info_list[2][2] >>

\* The sum of the counts printed for the first k rounds.
RECURSIVE NodesCounted(_)
NodesCounted(k) == IF k = 0 THEN 0 ELSE NodesCounted(k - 1) + printed[k][3]

\* C2: when main has written its files, the valid links are the links of the
\* rounds that added at least one node to all_fetched_nodes_info, in order;
\* every other round is counted once in failed_subscriptions_count; the two
\* numbers add up to the number of links.
C2_ValidIffNodes ==
  pc = "done" =>
    LET gave == { k \in 1..Len(printed) : printed[k][3] >= 1 }
        none == { k \in 1..Len(printed) : printed[k][3] = 0 }
    IN  /\ Len(printed) = Len(subscription_urls)
        /\ \A k \in 1..Len(printed) : printed[k][1] = subscription_urls[k]
        /\ Len(all_fetched_nodes_info) = NodesCounted(Len(printed))
        /\ valid_subscriptions = AtPlaces(subscription_urls, gave)
        /\ failed_subscriptions_count = Cardinality(none)
        /\ Len(valid_subscriptions) + failed_subscriptions_count = Len(subscription_urls)
        /\ files.subscriptions = valid_subscriptions

\* A run of two links, one found valid after one found invalid.
C2_Witness ==
  /\ pc = "done" /\ Len(subscription_urls) = 2
  /\ printed[1][3] = 0 /\ printed[2][3] >= 1
  /\ valid_subscriptions = << subscription_urls[2] >>
  /\ failed_subscriptions_count = 1

\* The round k ended on a download that failed: nothing was decoded or parsed.
DownloadFailed(k) == printed[k][2] = "" /\ printed[k][3] = 0

\* C3: a subscription whose download failed is counted invalid and gives no
\* node, and the run goes on with the links after it up to the files: no
\* exception ends it before they are written.
C3_RunSurvivesFetchFailure ==
  \A k \in 1..Len(printed) :
    DownloadFailed(k) =>
      /\ failed_subscriptions_count >= 1
      /\ printed[k][1] \notin { valid_subscriptions[m] : m \in 1..Len(valid_subscriptions) }
           \/ \E j \in 1..Len(printed) : j # k /\ printed[j][1] = printed[k][1]
      /\ pc # "raised"

\* The pair is a line under the key the line's own text gives: the prefix
\* followed by the first 100 characters of the line.
RawTextKey(pair) ==
  \E i \in 1..Len(protocol_prefixes) :
    pair[1] = protocol_prefixes[i] \o Slice(pair[2], 0, 100)

\* parse_nodes has returned.
ParseNodesReturned == pc \in { "deduplicate_nodes", "done" }

\* C4: a line that starts with a known prefix and that no rule of the prefix
\* reads is dropped: no node is returned under a key made of the line's text.
C4_NoRawTextKey ==
  ParseNodesReturned => \A k \in 1..Len(node_info_list) : ~RawTextKey(node_info_list[k])

\* The fields a map of the manifest must carry, by type; the types below are
\* the supported ones.
RequiredFields ==
  [ ss |-> { Key.cipher, Key.password }, vmess |-> { Key.uuid },
    trojan |-> { Key.password }, vless |-> { Key.uuid }, hysteria |-> { Key.auth },
    hysteria2 |-> { Key.password }, tuic |-> { Key.uuid, Key.password } ]

TypeName(e) ==
  LET t == Get(e, Key.type)
  IN  IF t.t # "str" THEN ""
      ELSE CASE t.v = Str(<<"s", "s">>) -> "ss" [] t.v = Str(<<"v", "m", "e", "s", "s">>) -> "vmess"
             [] t.v = Str(<<"t", "r", "o", "j", "a", "n">>) -> "trojan" [] t.v = Str(<<"v", "l", "e", "s", "s">>) -> "vless"
             [] t.v = Str(<<"h", "y", "s", "t", "e", "r", "i", "a">>) -> "hysteria" [] t.v = Str(<<"h", "y", "s", "t", "e", "r", "i", "a", "2">>) -> "hysteria2"
             [] t.v = Str(<<"t", "u", "i", "c">>) -> "tuic" [] OTHER -> ""

\* The map lacks a field its type requires, or its type is not supported.
Incomplete(e) ==
  \/ TypeName(e) = ""
  \/ \E k \in RequiredFields[TypeName(e)] : ~HasKey(e, k)

\* The maps of the 'proxies' list of a manifest; << >> when the content is
\* no manifest with such a list, or when the list holds anything but maps.
ManifestMaps(text) ==
  LET y == safe_load(text)
      proxies == Get(y.val, Key.proxies)
  IN  IF IsManifest(text) /\ y.ok /\ y.val.t = "dict" /\ HasKey(y.val, Key.proxies)
           /\ proxies.t = "list" /\ \A i \in 1..Len(proxies.v) : proxies.v[i].t = "dict"
      THEN proxies.v ELSE << >>

\* C5: a map of the manifest that lacks a field its type requires, or whose
\* type is not supported, gives no node: a manifest of such maps gives none,
\* and no node is returned under a 'clash_unknown_' key or without a key.
C5_NoPlaceholderNode ==
  ParseNodesReturned =>
    /\ \A k \in 1..Len(node_info_list) :
         /\ node_info_list[k][1] # None
         /\ ~startswith(node_info_list[k][1], Str(<<"c", "l", "a", "s", "h", "_", "u", "n", "k", "n", "o", "w", "n", "_">>))
    /\ (ManifestMaps(content) # << >>
          /\ \A i \in 1..Len(ManifestMaps(content)) : Incomplete(ManifestMaps(content)[i]))
         => node_info_list = << >>

\* The line without its '#tag'.
BeforeTag(l) == IF FindChar(l, 35, 1) = 0 THEN l ELSE SubSeq(l, 1, FindChar(l, 35, 1) - 1)

StartsWithScheme(text) ==
  \E i \in 1..Len(protocol_prefixes) : startswith(text, protocol_prefixes[i])

\* The content is two lines of a known prefix that differ in their tag only.
TagTwins(text) ==
  LET l == splitlines(text)
  IN  /\ ~IsManifest(text) /\ Len(l) = 2 /\ l[1] # l[2]
      /\ StartsWithScheme(l[1]) /\ BeforeTag(l[1]) = BeforeTag(l[2])

\* C6: two lines that differ in their tag only get the same key, and
\* deduplicate_nodes keeps the first of them only, whatever rule read them.
C6_TagTwinsShareKey ==
  pc = "done" /\ TagTwins(content) =>
    /\ Len(unique_nodes) <= 1
    /\ Len(node_info_list) = 2 =>
         /\ node_info_list[1][1] = node_info_list[2][1]
         /\ unique_nodes = << node_info_list[1][2] >>

\* The security and the transport of a vless line, and of a vless map.
LineVariant(l) ==
  << parse_qs_first(urlparse(l).query, Str(<<"s", "e", "c", "u", "r", "i", "t", "y">>)),
     parse_qs_first(urlparse(l).query, Key.type) >>

MapVariant(e) == << Get(e, Key.tls), Get(e, Key.network) >>

\* The content is two vless nodes of one uuid, server and port whose security
\* or transport differ: two lines, or two maps of a manifest.
VlessVariants(text) ==
  LET l == splitlines(text)
      m == ManifestMaps(text)
  IN  \/ /\ ~IsManifest(text) /\ Len(l) = 2
         /\ startswith(l[1], Scheme.vless) /\ startswith(l[2], Scheme.vless)
         /\ urlparse(l[1]).netloc = urlparse(l[2]).netloc
         /\ port(urlparse(l[1])).has
         /\ LineVariant(l[1]) # LineVariant(l[2])
      \/ /\ Len(m) = 2
         /\ TypeName(m[1]) = "vless" /\ TypeName(m[2]) = "vless"
         /\ ~Incomplete(m[1]) /\ ~Incomplete(m[2])
         /\ \A k \in { Key.uuid, Key.server, Key.port } : Get(m[1], k) = Get(m[2], k)
         /\ HasKey(m[1], Key.server) /\ HasKey(m[2], Key.server)
         /\ MapVariant(m[1]) # MapVariant(m[2])

\* C7: two vless nodes of one uuid, server and port whose security or
\* transport differ get different keys, and both are kept.
C7_VlessVariantsDistinct ==
  pc = "done" /\ VlessVariants(content) =>
    /\ Len(node_info_list) = 2
    /\ node_info_list[1][1] # node_info_list[2][1]
    /\ Len(unique_nodes) = 2

\* C8: a fetched text that starts with a known prefix is not base64-decoded:
\* the text handed to parse_nodes is the fetched text.
C8_PlainTextNotDecoded ==
  pc = "parse" /\ StartsWithScheme(raw_content) => processed_content = raw_content

\* The base64 step of script.py fails on the body: the body is no UTF-8, or
\* its padded text is not ASCII, not base64 or the base64 of no UTF-8 text.
Base64Fails(fetched) ==
  /\ fetched # << >>
  /\ \/ ~decode_utf8(fetched).ok
     \/ LET data   == decode_utf8(fetched).text
            padded == data \o [k \in 1..((4 - (Len(data) % 4)) % 4) |-> 61]
        IN  \/ ~IsAscii(padded)
            \/ ~urlsafe_b64decode(padded).ok
            \/ ~decode_utf8(urlsafe_b64decode(padded).bytes).ok

\* C9: when the base64 step fails on a fetched body, or the body is no UTF-8,
\* the body is read as plain text and its lines are parsed: the failure raises
\* nothing out of is_valid_sub or get_nodes_from_sub and does not end the run.
C9_DecodeFailureKeepsPayload ==
  [][ /\ (pc = "is_valid_sub" /\ Base64Fails(response)) => pc' # "raised"
      /\ (pc = "get_nodes_from_sub" /\ Base64Fails(response)) =>
           /\ pc' # "raised"
           /\ nodes' = ProtocolLines(DecodeText(response)) ]_vars

\* The body is a manifest on which yaml.safe_load raises.
ManifestThrows(raw) ==
  /\ raw # << >>
  /\ \E i \in 1..Len(ClashKeys) : KeyLine(DecodeText(raw), ClashKeys[i])
  /\ ~safe_load(DecodeText(raw)).ok

\* C10: when the text is a manifest and its structured parse raises, the
\* nodes are the lines of the same text: the result is not empty because of
\* the failure, and the link of such a text is valid when it has a line.
C10_ManifestFailureFallsBack ==
  [][ /\ (pc = "main.extract" /\ ManifestThrows(response)) =>
           tmp' = StrippedLines(DecodeText(response))
      /\ (pc = "is_valid" /\ ManifestThrows(response)
            /\ StrippedLines(DecodeText(response)) # << >>) =>
           valid' = Append(valid, links[position]) ]_vars

\* The content opens like a manifest and loads, and the document has no
\* 'proxies' list.
FalsePositive(text) ==
  /\ IsManifest(text) /\ safe_load(text).ok
  /\ ~(/\ safe_load(text).val.t = "dict" /\ HasKey(safe_load(text).val, Key.proxies)
        /\ Get(safe_load(text).val, Key.proxies).t = "list")

\* C11: a content that opens like a manifest and loads without a 'proxies'
\* list is read line by line: parse_nodes returns the nodes of its lines.
C11_FalsePositiveReadByLines ==
  ParseNodesReturned /\ FalsePositive(content) =>
    node_info_list = CollectLines(splitlines(content)).nodes


\* The payload of the vmess line decodes to a JSON object that carries add (or
\* server), port and id.
VmessObject(l) ==
  LET encoded_part == From(l, Len(Scheme.vmess))
      decoded      == b64decode(encoded_part \o Str(<<"=", "=">>))
      text         == IF decode_utf8(decoded.bytes).ok THEN decode_utf8(decoded.bytes).text
                      ELSE decode_latin1(decoded.bytes)
      js           == json_loads(text)
  IN  /\ IsAscii(encoded_part) /\ decoded.ok /\ js.ok /\ js.val.t = "dict"
      /\ Truthy(Or(Get(js.val, Key.add), Get(js.val, Key.server)))
      /\ Truthy(Get(js.val, Key.port)) /\ Truthy(Get(js.val, Key.id))

\* The content is vmess lines, one of them with a payload that is no such
\* object.
BadVmessLines(text) ==
  LET l == splitlines(text)
  IN  /\ ~IsManifest(text)
      /\ \A i \in 1..Len(l) : startswith(l[i], Scheme.vmess)
      /\ \E i \in 1..Len(l) : ~VmessObject(strip(l[i]))

\* C12: a vmess line whose payload is no JSON object with add, port and id
\* is dropped: parse_nodes raises nothing and returns the other lines.
C12_BadVmessDropped ==
  pc \in { "raised", "deduplicate_nodes", "done" } /\ BadVmessLines(content) =>
    /\ pc # "raised"
    /\ [k \in 1..Len(node_info_list) |-> node_info_list[k][2]]
         = SelectSeq([i \in 1..Len(splitlines(content)) |-> strip(splitlines(content)[i])],
                     VmessObject)

\* The entries of the 'proxies' list of a manifest; << >> when the content is
\* no manifest with such a list.
ManifestEntries(text) ==
  LET y == safe_load(text)
  IN  IF IsManifest(text) /\ y.ok /\ y.val.t = "dict" /\ HasKey(y.val, Key.proxies)
           /\ Get(y.val, Key.proxies).t = "list"
      THEN Get(y.val, Key.proxies).v ELSE << >>

\* The list holds a map and a URI string.
Mixed(entries) ==
  /\ \E i \in 1..Len(entries) : entries[i].t = "dict"
  /\ \E i \in 1..Len(entries) : entries[i].t = "str"

\* The pairs of the entries that their rule turns into a node, in the order
\* of the entries.
AcceptedNodes(entries) ==
  LET isNode(r) == r.kind = "node"
      done == SelectSeq([i \in 1..Len(entries) |-> ParseEntry(entries[i])], isNode)
  IN  [i \in 1..Len(done) |-> << done[i].key, done[i].uri >>]

\* C13: of a manifest whose list mixes maps and URI strings, parse_nodes
\* returns the node of every entry its rule accepts, in the order of the
\* entries: an entry that is rejected or that raises costs no other entry its
\* node, so a permutation of the entries permutes the nodes.
C13_EveryAcceptedEntryEmitted ==
  ParseNodesReturned /\ Mixed(ManifestEntries(content)) =>
    node_info_list = AcceptedNodes(ManifestEntries(content))

\* C14: the base64 step gives back the text that was encoded, whether the
\* encoding carries all of its '=', some of them or none: the padded and
\* the unpadded encoding of a text decode to the same text.
C14_PaddingRecovered ==
  pc \in { "decode_base64.return", "_try_base64.return", "parse" } =>
    processed_content = content

\* An encoding without its '=' of a text that holds a letter of two bytes in
\* UTF-8, decoded by decode_base64 or by main.
C14_Witness ==
  /\ pc \in { "decode_base64.return", "parse" }
  /\ Len(raw_content) % 4 # 0 /\ Pads(raw_content) = 0
  /\ \E i \in 1..Len(content) : content[i] = 233
  /\ processed_content = content

\* C15: deduplicate_nodes called on its own result, every URI paired again
\* with its key, returns that result: the same URIs in the same order.
C15_DedupIdempotent ==
  [][pc = "done" /\ pc' = "done.twice" => unique_nodes' = unique_nodes]_vars

\* A second call on the two URIs that the first call kept of three pairs.
C15_Witness ==
  /\ pc = "done.twice" /\ Len(node_info_list) = 3
  /\ Len(all_fetched_nodes_info) = 2
  /\ all_fetched_nodes_info[1][1] # all_fetched_nodes_info[2][1]
  /\ unique_nodes = << all_fetched_nodes_info[1][2], all_fetched_nodes_info[2][2] >>
  /\ unique_nodes[1] # unique_nodes[2]

\* C16: when script.main is over, every link of valid_subs gave at least one
\* node in the loop that collects the nodes, no other link gave any, and the
\* links written are the links of valid_subs: every link of subs is valid or
\* is not, never both.
C16_ValidSubsGiveNodes ==
  pc = "done" =>
    /\ Len(log) = Len(valid_subs)
    /\ \A k \in 1..Len(log) : log[k][1] = valid_subs[k] /\ log[k][2] >= 1
    /\ \A k \in 1..Len(valid_subs) : \E i \in 1..Len(subs) : subs[i] = valid_subs[k]
    /\ \A j, k \in 1..Len(valid_subs) : valid_subs[j] = valid_subs[k] => j = k
    /\ written.subscriptions = sorted({ valid_subs[k] : k \in 1..Len(valid_subs) })

\* The places of the two download loops: fetch of script.py and the download
\* of update.py.
LoopPlaces ==
  { "is_valid_sub.fetch", "get_nodes_from_sub.fetch", "is_valid.download", "main.download" }

\* A step out of a place of the download loops: a failed attempt that leaves
\* the call in the loop with one attempt more, the first attempt that succeeds,
\* or b'' after MAX_RETRIES failed attempts; never an exception.
LoopStep ==
  pc \in LoopPlaces =>
    \/ /\ pc' = pc /\ attempt < MAX_RETRIES
       /\ attempt' = attempt + 1 /\ response' = response
    \/ /\ pc' \notin LoopPlaces \cup { "raised" } /\ attempt < MAX_RETRIES
    \/ /\ pc' \notin LoopPlaces \cup { "raised" } /\ attempt = MAX_RETRIES
       /\ response' = << >>

\* C17: a call of the download loop ends: it never counts more than
\* MAX_RETRIES failed attempts; a failed attempt leaves it in the loop with one
\* attempt more; it leaves the loop on the first attempt that succeeds, or
\* with b'' after MAX_RETRIES failed attempts, and never by an exception.
C17_DownloadLoopEnds ==
  /\ [](attempt <= MAX_RETRIES)
  /\ [][LoopStep]_vars
  /\ (pc \in LoopPlaces ~> pc \notin LoopPlaces)

\* The second download of a link has failed MAX_RETRIES times.
C17_Witness ==
  /\ pc \in { "get_nodes_from_sub.fetch", "main.download" }
  /\ attempt = MAX_RETRIES

\* The pair is the node of a supported scheme: its key is none of the
\* 'clash_unknown_' keys.
OfScheme(pair) ==
  /\ pair[1] # None
  /\ ~startswith(pair[1], Str(<<"c", "l", "a", "s", "h", "_", "u", "n", "k", "n", "o", "w", "n", "_">>))

\* C18: the URI that _parse_clash_proxy_entry gives for a map of a supported
\* scheme, read by _parse_raw_uri_line, gets the key that the map got.
C18_MapAndUriShareKey ==
  pc \in { "_parse_raw_uri_line.return", "raised" } =>
    /\ pc # "raised"
    /\ \A k \in 1..Len(node_info_list) :
         OfScheme(node_info_list[k]) =>
           all_fetched_nodes_info[k][1] = node_info_list[k][1]

=============================================================================
